---- MODULE Spec2Model ----
(***************************************************************************)
(* A model of node-xml4js: the XSD compiler (XsdMixin.addSchema and the    *)
(* XsdSchema parse functions), the built-in value parsers, the resolution  *)
(* helpers and the validator callback with tryParse / tryRemoveArrays.     *)
(*                                                                         *)
(* Names ("a:item", "xs:string", "string") are records [p, l]: the text    *)
(* before the first colon and the text after it; p = "" when the name has  *)
(* no colon.  Text values handed to the value parsers are sequences of     *)
(* one-character strings, so that parseInt and toLowerCase are computed.   *)
(***************************************************************************)
EXTENDS Integers, Sequences, FiniteSets, TLC

VARIABLES
  parsedSchemas,      \* self.parsedSchemas: uri -> set of schema bodies
  downloadedSchemas,  \* self.downloadedSchemas: uri -> set of urls
  namespacePrefixes,  \* self.namespacePrefixes: uri -> prefix
  types,              \* self.types: qualified name -> type entry
  elements,           \* self.elements: qualified name -> element spec
  attributes,         \* self.attributes: qualified name -> attribute spec
  last,               \* the last operation called, its arguments and outcome
  driver              \* the run of parseString and the requests in flight

vars == <<parsedSchemas, downloadedSchemas, namespacePrefixes, types, elements,
          attributes, last, driver>>

registries == <<parsedSchemas, downloadedSchemas, namespacePrefixes, types,
                elements, attributes>>

-----------------------------------------------------------------------------
\* Generic helpers
\*
\* Throughout the module a record constructor lists its fields in the order
\* in which the field names first occur in the module: that is the order TLC
\* keeps a record in, so a record that several workers share is never
\* reordered while it is being read.

EmptyMap == [k \in {} |-> TRUE]

\* _.extend(target, source): every key of source is written over target
Extend(target, source) ==
  [k \in (DOMAIN target) \cup (DOMAIN source) |->
     IF k \in DOMAIN source THEN source[k] ELSE target[k]]

Put(map, k, v) == Extend(map, k :> v)

Nm(p, l) == [p |-> p, l |-> l]
NoName == Nm("", "")

\* JavaScript's three-valued isArray / isArrayDefault: a boolean or not set
Unset == "unset"
Tri(b) == IF b THEN "true" ELSE "false"
IsBoolean(t) == t \in {"true", "false"}

-----------------------------------------------------------------------------
\* multivalue helper (./multivalue): key -> set of values, idempotent insertion

hasValue(map, key, value) == key \in DOMAIN map /\ value \in map[key]

addValue(map, key, value) ==
  Put(map, key, (IF key \in DOMAIN map THEN map[key] ELSE {}) \cup {value})

-----------------------------------------------------------------------------
\* JavaScript values produced by the value parsers.  Every value carries the
\* same fields so that values of different JavaScript types can be compared.
\*   t: "string" | "number" | "NaN" | "Infinity" | "boolean" | "array" |
\*      "date" | "buffer"
\*   s: the characters (string, date, buffer)   n, e: the number n * 10^e
\*   b: the boolean, or the sign of an infinity  l: the strings of an array

JsVal(t, s, n, e, b, l) == [l |-> l, b |-> b, t |-> t, s |-> s, n |-> n, e |-> e]
Str(s) == JsVal("string", s, 0, 0, FALSE, <<>>)
NaN == JsVal("NaN", <<>>, 0, 0, FALSE, <<>>)
Infinity(negative) == JsVal("Infinity", <<>>, 0, 0, negative, <<>>)
Bool(b) == JsVal("boolean", <<>>, 0, 0, b, <<>>)
Arr(l) == JsVal("array", <<>>, 0, 0, FALSE, l)
DateVal(s) == JsVal("date", s, 0, 0, FALSE, <<>>)
BufferVal(s) == JsVal("buffer", s, 0, 0, FALSE, <<>>)

RECURSIVE Pow10(_)
Pow10(k) == IF k <= 0 THEN 1 ELSE 10 * Pow10(k - 1)

\* the number n * 10^e in canonical form (3.10 and 3.1 are one double)
RECURSIVE Num(_, _)
Num(n, e) ==
  IF n = 0 THEN JsVal("number", <<>>, 0, 0, FALSE, <<>>)
  ELSE IF e > 0 THEN JsVal("number", <<>>, n * Pow10(e), 0, FALSE, <<>>)
  ELSE IF e < 0 /\ n % 10 = 0 THEN Num(n \div 10, e + 1)
  ELSE JsVal("number", <<>>, n, e, FALSE, <<>>)

\* String.prototype.toLowerCase
UpperToLower ==
  [c \in {"A","B","C","D","E","F","G","H","I","J","K","L","M","N","O","P","Q",
          "R","S","T","U","V","W","X","Y","Z"} |->
     CASE c = "A" -> "a" [] c = "B" -> "b" [] c = "C" -> "c" [] c = "D" -> "d"
       [] c = "E" -> "e" [] c = "F" -> "f" [] c = "G" -> "g" [] c = "H" -> "h"
       [] c = "I" -> "i" [] c = "J" -> "j" [] c = "K" -> "k" [] c = "L" -> "l"
       [] c = "M" -> "m" [] c = "N" -> "n" [] c = "O" -> "o" [] c = "P" -> "p"
       [] c = "Q" -> "q" [] c = "R" -> "r" [] c = "S" -> "s" [] c = "T" -> "t"
       [] c = "U" -> "u" [] c = "V" -> "v" [] c = "W" -> "w" [] c = "X" -> "x"
       [] c = "Y" -> "y" [] c = "Z" -> "z"]

toLowerCase(s) ==
  [i \in 1..Len(s) |-> IF s[i] \in DOMAIN UpperToLower THEN UpperToLower[s[i]] ELSE s[i]]

IsWhitespace(c) == c \in {" ", "\t", "\n", "\r"}

DigitValue ==
  [c \in {"0","1","2","3","4","5","6","7","8","9","a","b","c","d","e","f",
          "A","B","C","D","E","F"} |->
     CASE c = "0" -> 0 [] c = "1" -> 1 [] c = "2" -> 2 [] c = "3" -> 3
       [] c = "4" -> 4 [] c = "5" -> 5 [] c = "6" -> 6 [] c = "7" -> 7
       [] c = "8" -> 8 [] c = "9" -> 9
       [] c \in {"a", "A"} -> 10 [] c \in {"b", "B"} -> 11
       [] c \in {"c", "C"} -> 12 [] c \in {"d", "D"} -> 13
       [] c \in {"e", "E"} -> 14 [] c \in {"f", "F"} -> 15]

IsDigit(c, radix) == c \in DOMAIN DigitValue /\ DigitValue[c] < radix

\* first index >= i of s that holds no whitespace (Len(s) + 1 when none)
RECURSIVE SkipWhitespace(_, _)
SkipWhitespace(s, i) ==
  IF i <= Len(s) /\ IsWhitespace(s[i]) THEN SkipWhitespace(s, i + 1) ELSE i

\* the digits of s from index i on: [n: their value, k: how many, i: next index]
RECURSIVE ReadDigits(_, _, _, _, _)
ReadDigits(s, i, radix, n, k) ==
  IF i <= Len(s) /\ IsDigit(s[i], radix)
  THEN ReadDigits(s, i + 1, radix, n * radix + DigitValue[s[i]], k + 1)
  ELSE [k |-> k, n |-> n, i |-> i]

HasAt(s, i, cs) == i <= Len(s) /\ s[i] \in cs

\* the global parseInt(string) without a radix
parseInt(s) ==
  LET i0 == SkipWhitespace(s, 1)
      negative == HasAt(s, i0, {"-"})
      i1 == IF HasAt(s, i0, {"-", "+"}) THEN i0 + 1 ELSE i0
      hex == HasAt(s, i1, {"0"}) /\ HasAt(s, i1 + 1, {"x", "X"})
      d == IF hex THEN ReadDigits(s, i1 + 2, 16, 0, 0) ELSE ReadDigits(s, i1, 10, 0, 0)
  IN IF d.k = 0 THEN NaN ELSE Num(IF negative THEN 0 - d.n ELSE d.n, 0)

IsPrefixAt(s, i, word) ==
  /\ i + Len(word) - 1 <= Len(s)
  /\ \A j \in 1..Len(word) : s[i + j - 1] = word[j]

\* the global parseFloat(string): sign, "Infinity", digits[.digits][e[+-]digits]
parseFloat(s) ==
  LET i0 == SkipWhitespace(s, 1)
      negative == HasAt(s, i0, {"-"})
      i1 == IF HasAt(s, i0, {"-", "+"}) THEN i0 + 1 ELSE i0
      int == ReadDigits(s, i1, 10, 0, 0)
      frac == IF HasAt(s, int.i, {"."})
              THEN ReadDigits(s, int.i + 1, 10, int.n, 0)
              ELSE [k |-> 0, n |-> int.n, i |-> int.i]
      eneg == HasAt(s, frac.i, {"e", "E"}) /\ HasAt(s, frac.i + 1, {"-"})
      e1 == IF HasAt(s, frac.i + 1, {"-", "+"}) THEN frac.i + 2 ELSE frac.i + 1
      exp == IF HasAt(s, frac.i, {"e", "E"})
             THEN ReadDigits(s, e1, 10, 0, 0)
             ELSE [k |-> 0, n |-> 0, i |-> frac.i]
      e == (IF eneg THEN 0 - exp.n ELSE exp.n) - frac.k
  IN IF IsPrefixAt(s, i1, <<"I","n","f","i","n","i","t","y">>) THEN Infinity(negative)
     ELSE IF int.k + frac.k = 0 THEN NaN
     ELSE Num(IF negative THEN 0 - frac.n ELSE frac.n, e)

\* String.prototype.split(/\s+/)
RECURSIVE SplitFrom(_, _, _, _)
SplitFrom(s, i, cur, acc) ==
  IF i > Len(s) THEN Append(acc, cur)
  ELSE IF IsWhitespace(s[i])
       THEN SplitFrom(s, SkipWhitespace(s, i), <<>>, Append(acc, cur))
       ELSE SplitFrom(s, i + 1, Append(cur, s[i]), acc)

split(s) == SplitFrom(s, 1, <<>>, <<>>)

\* new Buffer(value, 'hex') accepts an even number of hexadecimal digits
IsHexString(s) == Len(s) % 2 = 0 /\ \A i \in 1..Len(s) : IsDigit(s[i], 16)

-----------------------------------------------------------------------------
\* Registry entries

\* a type entry: {parse} for a built-in, {base} for a simple type (a list for a
\* union) and {children, anyChildren, isArray, attributes, base, restriction}
\* for a complex type; a field the code leaves out is "none", <<>>, FALSE or
\* Unset here, and children / attributes say whether the map is there at all
TypeEntry(parse, base, hasChildren, children, anyChildren, isArray, hasAttributes, attrs, restriction) ==
  [attributes |-> attrs, parse |-> parse, base |-> base,
   hasChildren |-> hasChildren, children |-> children, anyChildren |-> anyChildren,
   isArray |-> isArray, hasAttributes |-> hasAttributes,
   restriction |-> restriction]

EmptyType == TypeEntry("none", <<>>, FALSE, EmptyMap, FALSE, Unset, FALSE, EmptyMap, FALSE)
BaseType(parse) == [EmptyType EXCEPT !.parse = parse]

\* an element spec: {ref, isArrayDefault?} or {type, isArray?}
ElementSpec(ref, type, isArray, isArrayDefault) ==
  [isArray |-> isArray, ref |-> ref, type |-> type, isArrayDefault |-> isArrayDefault]

\* an attribute spec: the type's name, or {ref}
AttributeSpec(ref, type) == [ref |-> ref, type |-> type]

\* BASE_TYPES: the built-in names, each with the parser it shares
IdentityNames ==
  {"string", "normalizedString", "token", "language", "NMTOKEN", "Name", "NCName",
   "ID", "IDREF", "ENTITY", "anyURI", "duration", "time", "gYearMonth", "gYear",
   "gMonthDay", "gDay", "gMonth", "QName", "NOTATION"}
SplitNames == {"NMTOKENS", "IDREFS", "ENTITIES"}
IntegerNames ==
  {"integer", "nonPositiveInteger", "negativeInteger", "long", "int", "short",
   "byte", "nonNegativeInteger", "unsignedLong", "unsignedInt", "unsignedShort",
   "unsignedByte", "positiveInteger"}
DoubleNames == {"double", "float"}
DateNames == {"dateTime", "date"}

BaseParserOf(local) ==
  CASE local \in IdentityNames -> "identity"
    [] local \in SplitNames -> "split"
    [] local = "boolean" -> "boolean"
    [] local \in IntegerNames -> "integer"
    [] local = "decimal" -> "decimal"
    [] local \in DoubleNames -> "double"
    [] local \in DateNames -> "date"
    [] local = "hexBinary" -> "hexBinary"
    [] local = "base64Binary" -> "base64Binary"

BaseLocals ==
  IdentityNames \cup SplitNames \cup IntegerNames \cup DoubleNames \cup DateNames
    \cup {"boolean", "decimal", "hexBinary", "base64Binary"}

XS_TYPES == {Nm("", l) : l \in BaseLocals}

BASE_TYPES == [n \in XS_TYPES |-> BaseType(BaseParserOf(n.l))]

BASE_NAMESPACES == ("http://www.w3.org/XML/1998/namespace" :> "xml")

XMLSchemaUri == "http://www.w3.org/2001/XMLSchema"

\* The parse functions of BASE_TYPES.  A parser returns a value or throws;
\* hexThrows says whether the runtime's Buffer rejects a malformed hex string
\* (it throws in the Node releases the code was written for and decodes the
\* valid prefix in later ones).  moment.utc and base64 decoding never throw;
\* their results are kept as the value they were made from.
Returned(v) == [v |-> v, thrown |-> FALSE]
Thrown == [v |-> NaN, thrown |-> TRUE]

BooleanTokens ==
  {<<"t","r","u","e">>, <<"f","a","l","s","e">>, <<"0">>, <<"1">>}

RECURSIVE HexPrefix(_, _)
HexPrefix(s, i) ==
  IF i + 1 <= Len(s) /\ IsDigit(s[i], 16) /\ IsDigit(s[i + 1], 16)
  THEN HexPrefix(s, i + 2) ELSE SubSeq(s, 1, i - 1)

booleanParse(value) == Bool(toLowerCase(value) \in BooleanTokens)

doubleParse(value) ==
  IF toLowerCase(value) = <<"i","n","f">> THEN parseFloat(<<"I","n","f","i","n","i","t","y">>)
  ELSE IF toLowerCase(value) = <<"-","i","n","f">>
       THEN parseFloat(<<"-","I","n","f","i","n","i","t","y">>)
       ELSE parseFloat(value)

ApplyParser(parse, value, hexThrows) ==
  CASE parse = "identity" -> Returned(Str(value))
    [] parse = "split" -> Returned(Arr(split(value)))
    [] parse = "boolean" -> Returned(booleanParse(value))
    [] parse = "integer" -> Returned(parseInt(value))
    [] parse = "decimal" -> Returned(parseFloat(value))
    [] parse = "double" -> Returned(doubleParse(value))
    [] parse = "date" -> Returned(DateVal(value))
    [] parse = "hexBinary" ->
         IF IsHexString(value) THEN Returned(BufferVal(toLowerCase(value)))
         ELSE IF hexThrows THEN Thrown
         ELSE Returned(BufferVal(toLowerCase(HexPrefix(value, 1))))
    [] parse = "base64Binary" -> Returned(BufferVal(value))

-----------------------------------------------------------------------------
\* The parsed schema tree.  xml2js gives every node as its attributes ($) and,
\* per child tag, the list of the children with that tag.  A node of the model
\* holds the attributes and child lists the compiler looks at (an attribute
\* that is not there is NoName or <<>>, a child list that is not there is <<>>)
\* and, where the compiler checks that nothing is left, attrRest: the other
\* attributes of the node, and rest: its other child tags.

ElementNode(name, ref, type, maxOccurs, complexType, simpleType) ==
  [ref |-> ref, type |-> type, name |-> name, maxOccurs |-> maxOccurs,
   complexType |-> complexType, simpleType |-> simpleType]

AttributeNode(name, ref, type, simpleType, rest) ==
  [ref |-> ref, type |-> type, name |-> name, simpleType |-> simpleType, rest |-> rest]

RestrictionNode(base) == [base |-> base]

UnionNode(memberTypes, attrRest, rest) ==
  [rest |-> rest, memberTypes |-> memberTypes, attrRest |-> attrRest]

SimpleTypeNode(name, attrRest, restriction, union) ==
  [restriction |-> restriction, name |-> name, attrRest |-> attrRest, union |-> union]

AnyNode(maxOccurs) == [maxOccurs |-> maxOccurs]

ChoiceNode(maxOccurs, element, rest) ==
  [maxOccurs |-> maxOccurs, rest |-> rest, element |-> element]

SequenceNode(maxOccurs, element, choice, any, rest) ==
  [maxOccurs |-> maxOccurs, rest |-> rest, element |-> element, choice |-> choice,
   any |-> any]

\* a <restriction> or <extension> under simpleContent / complexContent
DerivationNode(base, attrRest, attribute, sequence, rest) ==
  [base |-> base, rest |-> rest, attrRest |-> attrRest,
   attribute |-> attribute, sequence |-> sequence]

ContentNode(restriction, extension, rest) ==
  [restriction |-> restriction, rest |-> rest, extension |-> extension]

ComplexTypeNode(name, attrRest, sequence, choice, simpleContent, complexContent, attribute) ==
  [name |-> name, attrRest |-> attrRest, choice |-> choice, attribute |-> attribute,
   sequence |-> sequence, simpleContent |-> simpleContent,
   complexContent |-> complexContent]

ImportNode(namespace, schemaLocation) ==
  [namespace |-> namespace, schemaLocation |-> schemaLocation]

\* the root element: its tag, whether it has attributes at all, its xmlns:*
\* attributes in document order, targetNamespace, and its children
SchemaNode(tag, hasAttrs, xmlns, targetNamespace, imports, includes, element, attribute, complexType, simpleType, rest) ==
  [complexType |-> complexType, simpleType |-> simpleType, rest |-> rest,
   element |-> element, attribute |-> attribute,
   tag |-> tag, hasAttrs |-> hasAttrs, xmlns |-> xmlns,
   targetNamespace |-> targetNamespace, imports |-> imports, includes |-> includes]

-----------------------------------------------------------------------------
\* XsdSchema: the compiler of one schema.  S holds its fields: namespace (the
\* prefix of the target namespace) and xsPrefix (the prefix bound to the XML
\* Schema namespace, "" when there is none; the code keeps it with its colon).
\*
\* The parse functions have side effects (they extend parser.types and draw
\* random strings) and assertions that throw; c threads them: c.ok is FALSE
\* once an assertion has thrown, c.types is parser.types as written so far,
\* c.rnd are the random strings the call will draw and c.ri the next one.
\* Every function returns [c, out].

XsdSchema(namespace, xsPrefix) == [namespace |-> namespace, xsPrefix |-> xsPrefix]

R(c, out) == [c |-> c, out |-> out]
Throw(c, out) == [c |-> [c EXCEPT !.ok = FALSE], out |-> out]

randomString(c) == c.rnd[((c.ri - 1) % Len(c.rnd)) + 1]
Drawn(c) == [c EXCEPT !.ri = @ + 1]

namespacedName(S, name) ==
  IF S.xsPrefix # "" /\ name.p = S.xsPrefix THEN Nm("", name.l)
  ELSE IF name.p # "" THEN name
  ELSE Nm(S.namespace, name.l)

namespacedTypeName(S, name) ==
  IF name \in XS_TYPES THEN name ELSE namespacedName(S, name)

GreaterThanOne(v) == v.t = "number" /\ v.e = 0 /\ v.n > 1

Unbounded == <<"u","n","b","o","u","n","d","e","d">>

MaxOccursIsArray(maxOccurs) ==
  Tri(maxOccurs = Unbounded \/ GreaterThanOne(parseInt(maxOccurs)))

parseIsArray(maxOccurs, isArrayDefault) ==
  IF maxOccurs # <<>> THEN MaxOccursIsArray(maxOccurs)
  ELSE IF IsBoolean(isArrayDefault) THEN isArrayDefault ELSE Unset

\* the name an anonymous nested type is given
NestedTypeName(name, random) == Nm(name.p, name.l \o "-type-" \o random)

Renamed(nodes, typeName) == [i \in 1..Len(nodes) |-> [nodes[i] EXCEPT !.name = typeName]]

\* one <simpleType>: [ok, base]
SimpleTypeValue(S, simpleType) ==
  LET r == simpleType.restriction
      u == simpleType.union
      failed == [base |-> <<>>, ok |-> FALSE]
      restricted ==
        IF r = <<>> THEN [base |-> <<>>, ok |-> TRUE]
        ELSE IF Len(r) # 1 THEN failed
        ELSE IF r[1].base = Nm("", "anySimpleType") THEN [base |-> <<>>, ok |-> TRUE]
        ELSE IF r[1].base = NoName THEN failed
        ELSE [base |-> <<namespacedTypeName(S, r[1].base)>>, ok |-> TRUE]
      members == u[1].memberTypes
  IN IF ~restricted.ok \/ u = <<>> THEN restricted
     ELSE IF Len(u) # 1 THEN failed
     ELSE IF members = <<>> \/ \E i \in 1..Len(members) : members[i] = NoName THEN failed
     ELSE IF u[1].attrRest # {} \/ u[1].rest # {} THEN failed
     ELSE [base |-> [i \in 1..Len(members) |-> namespacedTypeName(S, members[i])],
           ok |-> TRUE]

RECURSIVE parseSimpleTypeFrom(_, _, _, _, _)
parseSimpleTypeFrom(S, c, simpleTypes, i, type) ==
  IF i > Len(simpleTypes) THEN R(c, type)
  ELSE LET simpleType == simpleTypes[i]
           v == SimpleTypeValue(S, simpleType)
       IN IF ~v.ok \/ simpleType.name = NoName \/ simpleType.attrRest # {}
          THEN Throw(c, type)
          ELSE parseSimpleTypeFrom(S, c, simpleTypes, i + 1,
                 Put(type, namespacedName(S, simpleType.name),
                     [EmptyType EXCEPT !.base = v.base]))

parseSimpleType(S, c, simpleTypes) == parseSimpleTypeFrom(S, c, simpleTypes, 1, EmptyMap)

\* an <attribute> with a nested <simpleType>, once the type is compiled
AttributeWithNestedType(attribute, newAttributes, attributeName, typeName, nested) ==
  IF ~nested.c.ok THEN Throw(nested.c, newAttributes)
  ELSE IF attribute.rest # {}
  THEN Throw([nested.c EXCEPT !.types = Extend(@, nested.out)], newAttributes)
  ELSE R([nested.c EXCEPT !.types = Extend(@, nested.out)],
         Put(newAttributes, attributeName, AttributeSpec(NoName, typeName)))

\* one <attribute> of parseAttributes; newAttributes are those of the list so far
ParseAttribute(S, c, attribute, newAttributes) ==
  IF attribute.ref # NoName
  THEN R(c, Put(newAttributes, namespacedName(S, attribute.ref),
                AttributeSpec(namespacedName(S, attribute.ref), NoName)))
  ELSE IF attribute.name = NoName THEN Throw(c, newAttributes)
  ELSE IF namespacedName(S, attribute.name) \in DOMAIN newAttributes
  THEN Throw(c, newAttributes)
  ELSE IF attribute.type # NoName
  THEN IF attribute.rest # {} \/ attribute.simpleType # <<>>
       THEN Throw(c, newAttributes)
       ELSE R(c, Put(newAttributes, namespacedName(S, attribute.name),
                     AttributeSpec(NoName, namespacedTypeName(S, attribute.type))))
  ELSE IF attribute.simpleType # <<>>
  THEN AttributeWithNestedType(attribute, newAttributes,
         namespacedName(S, attribute.name),
         NestedTypeName(namespacedName(S, attribute.name), randomString(c)),
         parseSimpleType(S, Drawn(c),
           Renamed(attribute.simpleType,
                   NestedTypeName(namespacedName(S, attribute.name), randomString(c)))))
  ELSE Throw(c, newAttributes)

\* r is [c, out]: the context and the attributes of the list so far
RECURSIVE parseAttributesFrom(_, _, _, _)
parseAttributesFrom(S, r, attrs, i) ==
  IF ~r.c.ok \/ i > Len(attrs) THEN r
  ELSE parseAttributesFrom(S, ParseAttribute(S, r.c, attrs[i], r.out), attrs, i + 1)

parseAttributes(S, c, attrs) == parseAttributesFrom(S, R(c, EmptyMap), attrs, 1)

\* what parseTypesSequence returns: {children, anyChildren?, isArray?}
SequenceType(children, anyChildren, isArray) ==
  [children |-> children, anyChildren |-> anyChildren, isArray |-> isArray]

\* parseTypesSequence had it left the children out of a type with an <any>
ExtendTypeExclusive(type, sequenceType) ==
  [type EXCEPT !.hasChildren = ~sequenceType.anyChildren,
               !.children = IF sequenceType.anyChildren THEN EmptyMap
                            ELSE sequenceType.children,
               !.anyChildren = @ \/ sequenceType.anyChildren,
               !.isArray = IF IsBoolean(sequenceType.isArray)
                           THEN sequenceType.isArray ELSE @]

\* _.extend(type, <what parseTypesSequence returned for a sequence>)
ExtendType(type, sequenceType) ==
  [type EXCEPT !.hasChildren = TRUE,
               !.children = sequenceType.children,
               !.anyChildren = @ \/ sequenceType.anyChildren,
               !.isArray = IF IsBoolean(sequenceType.isArray)
                           THEN sequenceType.isArray ELSE @]

RECURSIVE parseElementsFrom(_, _, _, _, _)
RECURSIVE parseTypesChoice(_, _, _, _)
RECURSIVE parseTypesSequence(_, _, _)
RECURSIVE parseTypes(_, _, _, _)

\* an <element> with a nested type, once the type is compiled
ElementWithNestedType(newElements, elementName, isArray, typeName, nested) ==
  IF ~nested.c.ok THEN Throw(nested.c, newElements)
  ELSE R([nested.c EXCEPT !.types = Extend(@, nested.out)],
         Put(newElements, elementName, ElementSpec(NoName, typeName, isArray, Unset)))

\* one <element> of parseElements
ParseElement(S, c, element, isArrayDefault, newElements) ==
  IF element.ref # NoName
  THEN R(c, Put(newElements, namespacedName(S, element.ref),
                ElementSpec(namespacedName(S, element.ref), NoName, Unset,
                            IF IsBoolean(isArrayDefault) THEN isArrayDefault ELSE Unset)))
  ELSE IF element.name = NoName THEN Throw(c, newElements)
  ELSE IF element.type # NoName
  THEN R(c, Put(newElements, namespacedName(S, element.name),
                ElementSpec(NoName, namespacedTypeName(S, element.type),
                            parseIsArray(element.maxOccurs, isArrayDefault), Unset)))
  ELSE IF element.complexType = <<>> /\ element.simpleType = <<>>
  THEN Throw(c, newElements)
  ELSE IF element.complexType # <<>> /\ element.simpleType # <<>>
  THEN Throw(c, newElements)
  ELSE ElementWithNestedType(newElements, namespacedName(S, element.name),
         parseIsArray(element.maxOccurs, isArrayDefault),
         NestedTypeName(namespacedName(S, element.name), randomString(c)),
         parseTypes(S, Drawn(c),
           Renamed(element.complexType,
                   NestedTypeName(namespacedName(S, element.name), randomString(c))),
           Renamed(element.simpleType,
                   NestedTypeName(namespacedName(S, element.name), randomString(c)))))

\* r is [c, out]: the context and the elements of the list so far
parseElementsFrom(S, r, elementNodes, isArrayDefault, i) ==
  IF ~r.c.ok \/ i > Len(elementNodes) THEN r
  ELSE parseElementsFrom(S, ParseElement(S, r.c, elementNodes[i], isArrayDefault, r.out),
                         elementNodes, isArrayDefault, i + 1)

parseElements(S, c, elementNodes, isArrayDefault) ==
  parseElementsFrom(S, R(c, EmptyMap), elementNodes, isArrayDefault, 1)

\* assert(_.isEmpty(choice)) after the elements r of the choice
ChoiceConsumed(choice, r) ==
  IF r.c.ok /\ choice.rest # {} THEN Throw(r.c, r.out) ELSE r

\* choices: the <choice> children of the input node
parseTypesChoice(S, c, choices, isArrayDefault) ==
  IF choices = <<>> THEN R(c, EmptyMap)
  ELSE IF Len(choices) # 1 THEN Throw(c, EmptyMap)
  ELSE ChoiceConsumed(choices[1],
         parseElements(S, c, choices[1].element,
                       parseIsArray(choices[1].maxOccurs, isArrayDefault)))

\* parseTypesSequence if the <any> took its isArray from its own maxOccurs
\* only, without the default of the sequence
SequenceAnyOwnMaxOccurs(sequence, isArrayDefault, children, ch) ==
  IF ~ch.c.ok THEN Throw(ch.c, SequenceType(children, FALSE, Unset))
  ELSE IF sequence.any # <<>> /\ Len(sequence.any) # 1
  THEN Throw(ch.c, SequenceType(Extend(children, ch.out), FALSE, Unset))
  ELSE IF sequence.rest # {}
  THEN Throw(ch.c, SequenceType(Extend(children, ch.out), FALSE, Unset))
  ELSE R(ch.c, SequenceType(Extend(children, ch.out), sequence.any # <<>>,
                            IF sequence.any # <<>>
                            THEN parseIsArray(sequence.any[1].maxOccurs, Unset)
                            ELSE Unset))

\* the <any> of a sequence and the end of parseTypesSequence; children are the
\* elements of the sequence, ch those of its choice
SequenceAny(sequence, isArrayDefault, children, ch) ==
  IF ~ch.c.ok THEN Throw(ch.c, SequenceType(children, FALSE, Unset))
  ELSE IF sequence.any # <<>> /\ Len(sequence.any) # 1
  THEN Throw(ch.c, SequenceType(Extend(children, ch.out), FALSE, Unset))
  ELSE IF sequence.rest # {}
  THEN Throw(ch.c, SequenceType(Extend(children, ch.out), FALSE, Unset))
  ELSE R(ch.c, SequenceType(Extend(children, ch.out), sequence.any # <<>>,
                            IF sequence.any # <<>>
                            THEN parseIsArray(sequence.any[1].maxOccurs, isArrayDefault)
                            ELSE Unset))

\* the <choice> of a sequence, after its elements e
SequenceChoice(S, sequence, isArrayDefault, e) ==
  IF ~e.c.ok THEN Throw(e.c, SequenceType(e.out, FALSE, Unset))
  ELSE SequenceAny(sequence, isArrayDefault, e.out,
                   parseTypesChoice(S, e.c, sequence.choice, isArrayDefault))

\* sequences: the <sequence> children of the input node
parseTypesSequence(S, c, sequences) ==
  IF sequences = <<>> THEN R(c, SequenceType(EmptyMap, FALSE, Unset))
  ELSE IF Len(sequences) # 1 THEN Throw(c, SequenceType(EmptyMap, FALSE, Unset))
  ELSE SequenceChoice(S, sequences[1], parseIsArray(sequences[1].maxOccurs, Unset),
         parseElements(S, c, sequences[1].element,
                       parseIsArray(sequences[1].maxOccurs, Unset)))

\* the end of a derivation d whose sequence s was compiled
DerivationWithSequence(d, withAttributes, s) ==
  IF ~s.c.ok THEN [c |-> s.c, type |-> withAttributes]
  ELSE IF d.rest # {}
  THEN [c |-> [s.c EXCEPT !.ok = FALSE], type |-> ExtendType(withAttributes, s.out)]
  ELSE [c |-> s.c, type |-> ExtendType(withAttributes, s.out)]

\* the sequence of a derivation d; the code looks it up without the XML Schema
\* prefix, so with a prefix it is left unconsumed
DerivationSequence(S, d, c, withAttributes) ==
  IF d.sequence # <<>> /\ S.xsPrefix = ""
  THEN DerivationWithSequence(d, withAttributes, parseTypesSequence(S, c, d.sequence))
  ELSE IF d.rest # {} \/ d.sequence # <<>>
  THEN [c |-> [c EXCEPT !.ok = FALSE], type |-> withAttributes]
  ELSE [c |-> c, type |-> withAttributes]

\* the attributes a of a derivation d
DerivationAttributes(S, d, based, a) ==
  IF ~a.c.ok THEN [c |-> a.c, type |-> based]
  ELSE DerivationSequence(S, d, a.c,
         IF d.attribute # <<>>
         THEN [based EXCEPT !.hasAttributes = TRUE, !.attributes = a.out]
         ELSE based)

\* a derivation d of a type that has been given its base
DerivationBased(S, c, d, based) ==
  IF d.attrRest # {} THEN [c |-> [c EXCEPT !.ok = FALSE], type |-> based]
  ELSE DerivationAttributes(S, d, based, parseAttributes(S, c, d.attribute))

\* a <restriction> or <extension> of a content node; st is [c, type]
ParseDerivation(S, st, derivations, isRestriction) ==
  IF ~st.c.ok \/ derivations = <<>> THEN st
  ELSE IF Len(derivations) # 1 \/ derivations[1].base = NoName
  THEN [st EXCEPT !.c.ok = FALSE]
  ELSE DerivationBased(S, st.c, derivations[1],
         IF derivations[1].base # Nm("", "anyType")
         THEN [st.type EXCEPT !.base = <<namespacedTypeName(S, derivations[1].base)>>,
                              !.restriction = @ \/ isRestriction]
         ELSE st.type)

\* assert(_.isEmpty(content)) after its derivations x
ContentConsumed(content, x) ==
  IF x.c.ok /\ content.rest # {} THEN [x EXCEPT !.c.ok = FALSE] ELSE x

\* the simpleContent or complexContent children of a complex type
ParseContent(S, st, contents) ==
  IF ~st.c.ok \/ contents = <<>> THEN st
  ELSE IF Len(contents) # 1 THEN [st EXCEPT !.c.ok = FALSE]
  ELSE ContentConsumed(contents[1],
         ParseDerivation(S, ParseDerivation(S, st, contents[1].restriction, TRUE),
                         contents[1].extension, FALSE))

\* the steps of parseTypes for one <complexType>; each gives [c, type]
TypeWithSequence(complexType, s) ==
  [c |-> s.c,
   type |-> IF complexType.sequence # <<>> THEN ExtendType(EmptyType, s.out)
            ELSE EmptyType]

TypeWithChoice(complexType, type, ch) ==
  IF complexType.choice = <<>> THEN [c |-> ch.c, type |-> type]
  ELSE [c |-> ch.c, type |-> [type EXCEPT !.hasChildren = TRUE, !.children = ch.out]]

TypeChoice(S, complexType, st) ==
  IF ~st.c.ok THEN st
  ELSE TypeWithChoice(complexType, st.type,
                      parseTypesChoice(S, st.c, complexType.choice, Unset))

TypeContent(S, complexType, st) ==
  IF ~st.c.ok THEN st
  ELSE IF complexType.simpleContent # <<>> /\ complexType.complexContent # <<>>
  THEN [st EXCEPT !.c.ok = FALSE]
  ELSE ParseContent(S, ParseContent(S, st, complexType.simpleContent),
                    complexType.complexContent)

TypeWithAttributes(complexType, type, a) ==
  IF ~a.c.ok THEN [c |-> a.c, type |-> type]
  ELSE IF complexType.attribute = <<>> THEN [c |-> a.c, type |-> type]
  ELSE [c |-> a.c, type |-> [type EXCEPT !.hasAttributes = TRUE, !.attributes = a.out]]

TypeAttributes(S, complexType, st) ==
  IF ~st.c.ok THEN st
  ELSE TypeWithAttributes(complexType, st.type,
                          parseAttributes(S, st.c, complexType.attribute))

TypeNamed(complexType, st) ==
  IF st.c.ok /\ (complexType.name = NoName \/ complexType.attrRest # {})
  THEN [st EXCEPT !.c.ok = FALSE] ELSE st

\* one <complexType> of parseTypes: [c, type]
ParseComplexType(S, c, complexType) ==
  TypeNamed(complexType,
    TypeAttributes(S, complexType,
      TypeContent(S, complexType,
        TypeChoice(S, complexType,
          TypeWithSequence(complexType,
            parseTypesSequence(S, c, complexType.sequence))))))

\* newTypes[typeName] = type
TypeStored(S, newTypes, complexType, t) ==
  IF t.c.ok THEN R(t.c, Put(newTypes, namespacedName(S, complexType.name), t.type))
  ELSE R(t.c, newTypes)

\* r is [c, out]: the context and the types of the list so far
RECURSIVE parseComplexTypesFrom(_, _, _, _)
parseComplexTypesFrom(S, r, complexTypes, i) ==
  IF ~r.c.ok \/ i > Len(complexTypes) THEN r
  ELSE parseComplexTypesFrom(S,
         TypeStored(S, r.out, complexTypes[i], ParseComplexType(S, r.c, complexTypes[i])),
         complexTypes, i + 1)

\* _.extend(newTypes, self.parseSimpleType(input))
SimpleTypesMerged(newTypes, st) == R(st.c, Extend(newTypes, st.out))

SimpleTypesOf(S, simpleTypes, ct) ==
  IF ~ct.c.ok THEN ct
  ELSE SimpleTypesMerged(ct.out, parseSimpleType(S, ct.c, simpleTypes))

\* complexTypes, simpleTypes: the children of the input node with these tags
parseTypes(S, c, complexTypes, simpleTypes) ==
  SimpleTypesOf(S, simpleTypes, parseComplexTypesFrom(S, R(c, EmptyMap), complexTypes, 1))

parseImportsAndIncludes(currentNamespaceUrl, schema) ==
  LET RECURSIVE Imports(_, _)
      Imports(i, imports) ==
        IF i > Len(schema.imports) THEN imports
        ELSE Imports(i + 1, addValue(imports, schema.imports[i].namespace,
                                     schema.imports[i].schemaLocation))
      RECURSIVE Includes(_, _)
      Includes(i, imports) ==
        IF i > Len(schema.includes) THEN imports
        ELSE Includes(i + 1, addValue(imports, currentNamespaceUrl, schema.includes[i]))
  IN Includes(1, Imports(1, EmptyMap))

\* parseNamespacePrefixes over the xmlns:* attributes of the root, in order:
\* [np: the table as written so far, status, xsPrefix]
\* parseNamespacePrefixes had it no check for conflicting declarations: the
\* table would be rebound, which C4 rules out
RECURSIVE parseNamespacePrefixesRebinding(_, _, _, _)
parseNamespacePrefixesRebinding(np, xmlns, i, xsPrefix) ==
  IF i > Len(xmlns) THEN [xsPrefix |-> xsPrefix, np |-> np, status |-> "ok"]
  ELSE IF xmlns[i].prefix = ""
  THEN [xsPrefix |-> xsPrefix, np |-> np, status |-> "InvalidNamespaceDeclaration"]
  ELSE IF xmlns[i].uri = XMLSchemaUri
  THEN IF xsPrefix # ""
       THEN [xsPrefix |-> xsPrefix, np |-> np, status |-> "throw"]
       ELSE parseNamespacePrefixesRebinding(np, xmlns, i + 1, xmlns[i].prefix)
  ELSE parseNamespacePrefixesRebinding(Put(np, xmlns[i].uri, xmlns[i].prefix), xmlns,
                                       i + 1, xsPrefix)

RECURSIVE parseNamespacePrefixesFrom(_, _, _, _)
parseNamespacePrefixesFrom(np, xmlns, i, xsPrefix) ==
  IF i > Len(xmlns) THEN [xsPrefix |-> xsPrefix, np |-> np, status |-> "ok"]
  ELSE LET namespace == xmlns[i].prefix
           value == xmlns[i].uri
       IN IF namespace = ""
          THEN [xsPrefix |-> xsPrefix, np |-> np, status |-> "InvalidNamespaceDeclaration"]
          ELSE IF value = XMLSchemaUri
          THEN IF xsPrefix # ""
               THEN [xsPrefix |-> xsPrefix, np |-> np, status |-> "throw"]
               ELSE parseNamespacePrefixesFrom(np, xmlns, i + 1, namespace)
          ELSE IF value \in DOMAIN np /\ np[value] # namespace
          THEN [xsPrefix |-> xsPrefix, np |-> np, status |-> "NamespaceConflict"]
          ELSE parseNamespacePrefixesFrom(Put(np, value, namespace), xmlns, i + 1, xsPrefix)

parseNamespacePrefixes(np, schema) ==
  parseNamespacePrefixesFrom(np, IF schema.hasAttrs THEN schema.xmlns ELSE <<>>, 1, "")

-----------------------------------------------------------------------------
\* Inputs: the schema bodies that are handed to addSchema, each with the tree
\* xml2js.parseString makes of it.

Text_1 == <<"1">>
Text_3 == <<"3">>

XS(l) == Nm("xs", l)
A(l) == Nm("a", l)
B(l) == Nm("b", l)

XmlnsDecl(prefix, uri) == [prefix |-> prefix, uri |-> uri]

NamedElement(name, type, maxOccurs) == ElementNode(Nm("", name), NoName, type, maxOccurs, <<>>, <<>>)
RefElement(ref, maxOccurs) == ElementNode(NoName, ref, NoName, maxOccurs, <<>>, <<>>)
Sequence(maxOccurs, element, any) == SequenceNode(maxOccurs, element, <<>>, any, {})
Complex(name, sequence) ==
  ComplexTypeNode(Nm("", name), {}, sequence, <<>>, <<>>, <<>>, <<>>)
AnonymousComplex(sequence) == ComplexTypeNode(NoName, {}, sequence, <<>>, <<>>, <<>>, <<>>)

Schema(xmlns, targetNamespace, imports, element, attribute, complexType, simpleType, rest) ==
  SchemaNode(XS("schema"), TRUE, xmlns, targetNamespace, imports, <<>>, element,
             attribute, complexType, simpleType, rest)

XsA == <<XmlnsDecl("xs", XMLSchemaUri), XmlnsDecl("a", "urn:a")>>

\* the attribute kind of the types Tag and Price
KindAttribute == <<AttributeNode(Nm("", "kind"), NoName, XS("string"), <<>>, {})>>

\* urn:a: elements of a simple type, of unions and of complex types; Bag and
\* Slot hold an <any> that has no maxOccurs of its own, Tag has an attribute,
\* Price extends xs:int with an attribute, Cost extends Price with none, Hex
\* is the union of xs:hexBinary and xs:string, and Either is a union whose
\* members are the complex types Memo and Flags
BodyA1 ==
  Schema(XsA, "urn:a", <<ImportNode("urn:b", "b.xsd")>>,
    <<NamedElement("root", A("Root"), <<>>), NamedElement("box", A("Box"), <<>>),
      NamedElement("item", XS("int"), <<>>), NamedElement("code", A("Code"), <<>>),
      NamedElement("flag", XS("boolean"), <<>>), NamedElement("memo", A("Memo"), <<>>),
      NamedElement("bag", A("Bag"), <<>>), NamedElement("slot", A("Slot"), <<>>),
      NamedElement("tag", A("Tag"), <<>>), NamedElement("price", A("Price"), <<>>),
      NamedElement("blob", A("Hex"), <<>>), NamedElement("either", A("Either"), <<>>),
      NamedElement("cost", A("Cost"), <<>>)>>,
    <<AttributeNode(Nm("", "lang"), NoName, XS("language"), <<>>, {})>>,
    <<Complex("Root",
        <<Sequence(<<>>,
            <<NamedElement("one", XS("string"), Text_1), NamedElement("few", XS("int"), Text_3),
              NamedElement("many", XS("string"), Unbounded), RefElement(A("item"), Unbounded),
              RefElement(A("flag"), <<>>)>>, <<>>)>>),
      Complex("Box",
        <<Sequence(<<>>, <<NamedElement("one", XS("string"), Text_1)>>,
                   <<AnyNode(Unbounded)>>)>>),
      Complex("Memo", <<Sequence(Text_1, <<RefElement(A("flag"), <<>>)>>, <<>>)>>),
      Complex("Bag", <<Sequence(Unbounded, <<>>, <<AnyNode(<<>>)>>)>>),
      Complex("Slot", <<Sequence(<<>>, <<>>, <<AnyNode(<<>>)>>)>>),
      Complex("Flags",
        <<Sequence(Unbounded, <<RefElement(A("flag"), <<>>), RefElement(A("item"), <<>>)>>,
                   <<>>)>>),
      ComplexTypeNode(Nm("", "Tag"), {},
        <<Sequence(<<>>, <<NamedElement("one", XS("string"), <<>>)>>, <<>>)>>,
        <<>>, <<>>, <<>>, KindAttribute),
      ComplexTypeNode(Nm("", "Price"), {}, <<>>, <<>>,
        <<ContentNode(<<>>, <<DerivationNode(XS("int"), {}, KindAttribute, <<>>, {})>>, {})>>,
        <<>>, <<>>),
      ComplexTypeNode(Nm("", "Cost"), {}, <<>>, <<>>,
        <<ContentNode(<<>>, <<DerivationNode(A("Price"), {}, <<>>, <<>>, {})>>, {})>>,
        <<>>, <<>>)>>,
    <<SimpleTypeNode(Nm("", "Code"), {}, <<>>,
        <<UnionNode(<<XS("int"), XS("string")>>, {}, {})>>),
      SimpleTypeNode(Nm("", "Hex"), {}, <<>>,
        <<UnionNode(<<XS("hexBinary"), XS("string")>>, {}, {})>>),
      SimpleTypeNode(Nm("", "Either"), {}, <<>>,
        <<UnionNode(<<A("Memo"), A("Flags")>>, {}, {})>>)>>,
    {})

\* urn:a again, from another document: it declares a:item with another type,
\* an element with an anonymous type, a top-level <element ref="a:wheel"/>,
\* and the simple type Ring, a restriction of Ring
BodyA2 ==
  Schema(XsA, "urn:a", <<>>,
    <<NamedElement("item", XS("string"), <<>>), RefElement(A("wheel"), <<>>),
      ElementNode(Nm("", "note"), NoName, NoName, <<>>,
        <<AnonymousComplex(<<Sequence(Unbounded, <<RefElement(A("item"), <<>>)>>, <<>>)>>)>>, <<>>),
      NamedElement("ring", A("Ring"), <<>>)>>,
    <<>>, <<>>,
    <<SimpleTypeNode(Nm("", "Ring"), {}, <<RestrictionNode(A("Ring"))>>, <<>>)>>,
    {})

\* urn:a with a construct the compiler does not know (<xs:notation>)
BodyA3 ==
  Schema(XsA, "urn:a", <<>>, <<NamedElement("extra", XS("string"), <<>>)>>, <<>>,
    <<Complex("Extra", <<Sequence(<<>>, <<NamedElement("one", XS("int"), <<>>)>>, <<>>)>>)>>,
    <<>>, {"xs:notation"})

\* urn:b, with its own prefix and a type named like one of urn:a
BodyB1 ==
  Schema(<<XmlnsDecl("xs", XMLSchemaUri), XmlnsDecl("b", "urn:b"), XmlnsDecl("a", "urn:a")>>,
    "urn:b", <<ImportNode("urn:a", "a.xsd")>>,
    <<NamedElement("leaf", B("Leaf"), <<>>)>>, <<>>, <<>>,
    <<SimpleTypeNode(Nm("", "Leaf"), {}, <<RestrictionNode(XS("token"))>>, <<>>)>>,
    {})

\* urn:b under the prefix c, and then urn:a under the prefix z
BodyB2 ==
  Schema(<<XmlnsDecl("xs", XMLSchemaUri), XmlnsDecl("c", "urn:b"), XmlnsDecl("z", "urn:a")>>,
    "urn:b", <<>>, <<NamedElement("leaf", XS("string"), <<>>)>>, <<>>, <<>>, <<>>, {})

\* urn:b bound to the prefix a, which urn:a uses
BodyB3 ==
  Schema(<<XmlnsDecl("xs", XMLSchemaUri), XmlnsDecl("a", "urn:b")>>,
    "urn:b", <<>>, <<NamedElement("item", XS("boolean"), <<>>)>>, <<>>, <<>>, <<>>, {})

\* urn:b with an import of its own namespace: from the url it is served at,
\* and from another url
BodyB4 ==
  Schema(<<XmlnsDecl("xs", XMLSchemaUri), XmlnsDecl("b", "urn:b")>>,
    "urn:b", <<ImportNode("urn:b", "b4.xsd")>>,
    <<NamedElement("leaf", XS("string"), <<>>)>>, <<>>, <<>>, <<>>, {})

BodyB5 ==
  Schema(<<XmlnsDecl("xs", XMLSchemaUri), XmlnsDecl("b", "urn:b")>>,
    "urn:b", <<ImportNode("urn:b", "b.xsd")>>,
    <<NamedElement("leaf", XS("string"), <<>>)>>, <<>>, <<>>, <<>>, {})

NoRoot == SchemaNode(NoName, FALSE, <<>>, "", <<>>, <<>>, <<>>, <<>>, <<>>, <<>>, {})

\* xml2js.parseString(schemaContent): an error, or the tree of the body
parseString(schemaContent) ==
  CASE schemaContent = "a1.xsd" -> [err |-> FALSE, result |-> BodyA1]
    [] schemaContent = "a2.xsd" -> [err |-> FALSE, result |-> BodyA2]
    [] schemaContent = "a3.xsd" -> [err |-> FALSE, result |-> BodyA3]
    [] schemaContent = "b1.xsd" -> [err |-> FALSE, result |-> BodyB1]
    [] schemaContent = "b2.xsd" -> [err |-> FALSE, result |-> BodyB2]
    [] schemaContent = "b3.xsd" -> [err |-> FALSE, result |-> BodyB3]
    [] schemaContent = "b4.xsd" -> [err |-> FALSE, result |-> BodyB4]
    [] schemaContent = "b5.xsd" -> [err |-> FALSE, result |-> BodyB5]
    [] OTHER -> [err |-> TRUE, result |-> NoRoot]

Bodies == {"a1.xsd", "a2.xsd", "a3.xsd", "b1.xsd", "b2.xsd", "b3.xsd", "not xml"}
Uris == {"urn:a", "urn:b"}

\* the strings randomString() can return, and how many one addSchema draws
\* before they repeat
MaxRandom == 2
MaxDrawn == 1
RandomStrings == {"r" \o ToString(i) : i \in 1..MaxRandom}
Draws == [1..MaxDrawn -> RandomStrings]

-----------------------------------------------------------------------------
\* Arguments and results of the validator callback (described with it below)

NewValue(uri, name, attrs, hasText, text, children) ==
  [children |-> children, attrs |-> attrs, name |-> name, uri |-> uri, hasText |-> hasText,
   text |-> text]

Attr(name, isString, value) == [value |-> value, name |-> name, isString |-> isString]
Group(name, items) == [name |-> name, items |-> items]

\* a child group of the returned value: the single value child[0], or the list
Single(name, child) == [name |-> name, items |-> <<child[1]>>, single |-> TRUE]
Listed(name, child) == [name |-> name, items |-> child, single |-> FALSE]

\* the value the validator returns: a parsed value, or an object with the
\* parsed attributes, the text and the child groups under their local names
Value(isObject, v, attrs, hasText, text, children) ==
  [v |-> v, children |-> children, attrs |-> attrs, hasText |-> hasText, text |-> text,
   isObject |-> isObject]
NoValue == Value(FALSE, Str(<<>>), EmptyMap, FALSE, Str(<<>>), EmptyMap)
NoNewValue == NewValue("", NoName, <<>>, FALSE, <<>>, <<>>)

-----
\* XsdMixin

Outcome(op, status, error, uri, body, imports, stack, newValue, value) ==
  [value |-> value, imports |-> imports, status |-> status, uri |-> uri, op |-> op,
   error |-> error, body |-> body, stack |-> stack, newValue |-> newValue]

\* what addSchema leaves behind: the registries and what it passed to its
\* callback ("throw": an assertion threw instead); imports is <<>> when the
\* callback was given no second argument, and <<m>> when it was given m
Left(np, ty, el, at, ps, status, error, imports) ==
  [parsedSchemas |-> ps, namespacePrefixes |-> np, types |-> ty, elements |-> el,
   attributes |-> at, imports |-> imports, status |-> status, error |-> error]

AlreadyParsed(namespaceUrl, schemaContent) ==
  hasValue(parsedSchemas, namespaceUrl, schemaContent)

\* the end of addSchema, after parseTypes gave t
CompileTypes(namespaceUrl, schemaContent, schema, np, newElements, newAttributes, t) ==
  IF ~t.c.ok
  THEN Left(np, t.c.types, newElements, newAttributes, parsedSchemas, "throw",
            "AssertionError", <<>>)
  ELSE IF schema.rest # {}
  THEN Left(np, Extend(t.c.types, t.out), newElements, newAttributes, parsedSchemas,
            "throw", "AssertionError", <<>>)
  ELSE Left(np, Extend(t.c.types, t.out), newElements, newAttributes,
            addValue(parsedSchemas, namespaceUrl, schemaContent), "ok", "",
            <<parseImportsAndIncludes(namespaceUrl, schema)>>)

\* addSchema after parseAttributes gave a
CompileAttributes(namespaceUrl, schemaContent, schema, np, S, newElements, a) ==
  IF ~a.c.ok
  THEN Left(np, a.c.types, newElements, attributes, parsedSchemas, "throw",
            "AssertionError", <<>>)
  ELSE CompileTypes(namespaceUrl, schemaContent, schema, np, newElements,
                    Extend(attributes, a.out),
                    parseTypes(S, a.c, schema.complexType, schema.simpleType))

\* addSchema after parseElements gave e
CompileElements(namespaceUrl, schemaContent, schema, np, S, e) ==
  IF ~e.c.ok
  THEN Left(np, e.c.types, elements, attributes, parsedSchemas, "throw",
            "AssertionError", <<>>)
  ELSE CompileAttributes(namespaceUrl, schemaContent, schema, np, S,
                         Extend(elements, e.out),
                         parseAttributes(S, e.c, schema.attribute))

\* addSchema from new XsdSchema(...) on
Compile(namespaceUrl, schemaContent, schema, np, xsPrefix, rnd) ==
  CompileElements(namespaceUrl, schemaContent, schema, np,
    XsdSchema(np[namespaceUrl], xsPrefix),
    parseElements(XsdSchema(np[namespaceUrl], xsPrefix),
                  [types |-> types, ok |-> TRUE, rnd |-> rnd, ri |-> 1],
                  schema.element, Unset))

Failed(np, status, error) ==
  Left(np, types, elements, attributes, parsedSchemas, status, error, <<>>)

\* addSchema after parseNamespacePrefixes gave p
Prefixed(namespaceUrl, schemaContent, rnd, schema, p) ==
  IF p.status = "throw" THEN Failed(p.np, "throw", "AssertionError")
  ELSE IF p.status # "ok" THEN Failed(p.np, "error", p.status)
  ELSE IF schema.tag # Nm(p.xsPrefix, "schema")
  THEN Failed(p.np, "throw", "AssertionError")
  ELSE IF ~schema.hasAttrs \/ schema.targetNamespace # namespaceUrl
  THEN Failed(p.np, "error", "InvalidSchema")
  ELSE IF namespaceUrl \notin DOMAIN p.np
  THEN Failed(p.np, "error", "UnknownPrefix")
  ELSE Compile(namespaceUrl, schemaContent, schema, p.np, p.xsPrefix, rnd)

\* addSchema after xml2js.parseString gave parsed
Parsed(namespaceUrl, schemaContent, rnd, parsed) ==
  IF parsed.err THEN Failed(namespacePrefixes, "error", "XmlError")
  ELSE IF parsed.result = NoRoot THEN Failed(namespacePrefixes, "error", "InvalidSchema")
  ELSE Prefixed(namespaceUrl, schemaContent, rnd, parsed.result,
                parseNamespacePrefixes(namespacePrefixes, parsed.result))

\* addSchema had it no early return for a schema already parsed: the schema
\* would be compiled again, which C1 rules out
AddSchemaCompilingAgain(namespaceUrl, schemaContent, rnd) ==
  Parsed(namespaceUrl, schemaContent, rnd, parseString(schemaContent))

AddSchemaResult(namespaceUrl, schemaContent, rnd) ==
  IF AlreadyParsed(namespaceUrl, schemaContent)
  THEN Left(namespacePrefixes, types, elements, attributes, parsedSchemas, "ok", "",
            <<EmptyMap>>)
  ELSE Parsed(namespaceUrl, schemaContent, rnd, parseString(schemaContent))

\* the registries are left as r says and the callback is given r's outcome
addSchemaCallback(namespaceUrl, schemaContent, r) ==
  /\ namespacePrefixes' = r.namespacePrefixes
  /\ types' = r.types
  /\ elements' = r.elements
  /\ attributes' = r.attributes
  /\ parsedSchemas' = r.parsedSchemas
  /\ UNCHANGED <<downloadedSchemas, driver>>
  /\ last' = Outcome("addSchema", r.status, r.error, namespaceUrl, schemaContent,
                     r.imports, <<>>, NoNewValue, NoValue)

addSchema(namespaceUrl, schemaContent, rnd) ==
  addSchemaCallback(namespaceUrl, schemaContent, AddSchemaResult(namespaceUrl, schemaContent, rnd))

knownSchemas == parsedSchemas

-----------------------------------------------------------------------------
\* Resolution helpers of the validator.  A helper returns err = "" and its
\* result, or the error it threw: "ValidationError", "AssertionError",
\* "TypeError", or "loop" when it does not return.

\* res = res.concat(r), or the error r
Concat(acc, r) == IF r.err # "" THEN r ELSE [err |-> "", res |-> acc.res \o r.res]

\* seen: the types the recursion is inside of; meeting one again, it goes on
\* until the call stack is exhausted
RECURSIVE resolveTypeFrom(_, _)
RECURSIVE resolveTypeEach(_, _, _, _)
resolveTypeFrom(typeName, seen) ==
  IF typeName \notin DOMAIN types THEN [err |-> "ValidationError", res |-> <<>>]
  ELSE IF typeName \in seen THEN [err |-> "RangeError", res |-> <<>>]
  ELSE IF types[typeName].base # <<>>
  THEN resolveTypeEach(types[typeName].base, 1, [err |-> "", res |-> <<>>],
                       seen \cup {typeName})
  ELSE [err |-> "", res |-> <<types[typeName]>>]

resolveTypeEach(bases, i, acc, seen) ==
  IF acc.err # "" \/ i > Len(bases) THEN acc
  ELSE resolveTypeEach(bases, i + 1, Concat(acc, resolveTypeFrom(bases[i], seen)), seen)

resolveType(typeName) == resolveTypeFrom(typeName, {})

RECURSIVE resolveAttributeTypeFrom(_, _)
resolveAttributeTypeFrom(typeName, seen) ==
  IF typeName.ref = NoName THEN [typeName |-> typeName.type, err |-> ""]
  ELSE IF typeName.ref \notin DOMAIN attributes
  THEN [typeName |-> NoName, err |-> "ValidationError"]
  ELSE IF typeName.ref \in seen THEN [typeName |-> NoName, err |-> "loop"]
  ELSE resolveAttributeTypeFrom(attributes[typeName.ref], seen \cup {typeName.ref})

resolveAttributeType(typeName) == resolveAttributeTypeFrom(typeName, {})

\* seen: the refs the loop has followed; meeting one again, it never ends
RECURSIVE resolveElementFrom(_, _, _)
resolveElementFrom(element, isArrayDefault, seen) ==
  IF element.ref # NoName
  THEN IF element.ref \notin DOMAIN elements
       THEN [element |-> element, err |-> "ValidationError"]
       ELSE IF element.ref \in seen THEN [element |-> element, err |-> "loop"]
       ELSE resolveElementFrom(elements[element.ref],
              IF element.isArrayDefault # Unset THEN element.isArrayDefault
              ELSE isArrayDefault,
              seen \cup {element.ref})
  ELSE IF element.isArray # Unset THEN [element |-> element, err |-> ""]
  ELSE IF IsBoolean(isArrayDefault)
  THEN [element |-> [element EXCEPT !.isArray = isArrayDefault], err |-> ""]
  ELSE [element |-> element, err |-> ""]

resolveElement(element) == resolveElementFrom(element, Unset, {})

RECURSIVE resolveToParseFrom(_, _)
RECURSIVE resolveToParseEach(_, _, _, _)
resolveToParseFrom(typeName, seen) ==
  IF typeName \notin DOMAIN types THEN [err |-> "ValidationError", res |-> <<>>]
  ELSE IF types[typeName].parse # "none" THEN [err |-> "", res |-> <<types[typeName].parse>>]
  ELSE IF typeName \in seen THEN [err |-> "RangeError", res |-> <<>>]
  ELSE IF types[typeName].base # <<>>
  THEN resolveToParseEach(types[typeName].base, 1, [err |-> "", res |-> <<>>],
                          seen \cup {typeName})
  ELSE [err |-> "", res |-> <<>>]

resolveToParseEach(bases, i, acc, seen) ==
  IF acc.err # "" \/ i > Len(bases) THEN acc
  ELSE resolveToParseEach(bases, i + 1, Concat(acc, resolveToParseFrom(bases[i], seen)), seen)

resolveToParse(typeName) == resolveToParseFrom(typeName, {})

\* the i-th round of the loop of tryParse, which calls parse[0]
RECURSIVE tryParseFrom(_, _, _, _)
TryParseRound(parse, value, hexThrows, i, r) ==
  IF r.thrown THEN tryParseFrom(parse, value, hexThrows, i + 1) ELSE r

tryParseFrom(parse, value, hexThrows, i) ==
  IF i > Len(parse) THEN Thrown
  ELSE TryParseRound(parse, value, hexThrows, i, ApplyParser(parse[1], value, hexThrows))

tryParse(parse, value, hexThrows) == tryParseFrom(parse, value, hexThrows, 1)

RECURSIVE tryChildrenFrom(_, _)
tryChildrenFrom(type, i) ==
  IF i > Len(type) THEN [children |-> EmptyMap, err |-> "ValidationError"]
  ELSE IF type[i].anyChildren THEN [children |-> elements, err |-> ""]
  ELSE IF type[i].hasChildren THEN [children |-> type[i].children, err |-> ""]
  ELSE tryChildrenFrom(type, i + 1)

tryChildren(type) == tryChildrenFrom(type, 1)

resolveToAttributes(typeName) ==
  IF typeName \notin DOMAIN types THEN [attributes |-> EmptyMap, err |-> "ValidationError"]
  ELSE IF types[typeName].hasAttributes
  THEN [attributes |-> types[typeName].attributes, err |-> ""]
  ELSE [attributes |-> EmptyMap, err |-> ""]

nodeNamespace(uri) ==
  IF uri = "" THEN [namespace |-> "", err |-> "AssertionError"]
  ELSE IF uri \notin DOMAIN namespacePrefixes
  THEN [namespace |-> "", err |-> "ValidationError"]
  ELSE [namespace |-> namespacePrefixes[uri], err |-> ""]

\* namespacedName(namespace, name) of the validator
validatorNamespacedName(namespace, name) ==
  IF name.p = "xs" THEN Nm("", name.l)
  ELSE IF name.p # "" THEN name
  ELSE Nm(namespace, name.l)

namespacedOrNotName(namespace, name, namespaced) ==
  IF namespaced THEN validatorNamespacedName(namespace, name) ELSE Nm("", name.l)

\* path.push(namespacedName(ns, name)), or the error of nodeNamespace
PathPushed(p, name, ns) ==
  IF p.err # "" THEN p
  ELSE IF ns.err # "" THEN [err |-> ns.err, path |-> p.path]
  ELSE [err |-> "", path |-> Append(p.path, validatorNamespacedName(ns.namespace, name))]

RECURSIVE createNamespacedPathFrom(_, _, _)
createNamespacedPathFrom(stack, i, p) ==
  IF p.err # "" \/ i > Len(stack) THEN p
  ELSE createNamespacedPathFrom(stack, i + 1,
         PathPushed(p, stack[i].name, nodeNamespace(stack[i].uri)))

createNamespacedPath(stack, newValue) ==
  PathPushed(createNamespacedPathFrom(stack, 1, [err |-> "", path |-> <<>>]),
             newValue.name, nodeNamespace(newValue.uri))

-----------------------------------------------------------------------------
\* The validator callback.  newValue is the object xml2js built for the
\* element that has just been closed:
\*   uri, name : its namespace URI (newValue[xmlnskey].uri) and its tag
\*   attrs     : newValue[attrkey], a list of [name, isString, value]
\*   hasText, text : newValue[charkey]
\*   children  : one [name, items] per child tag, items being the values the
\*               validator returned for the children with that tag
\* stack is the list of [uri, name] of the ancestors.  A string newValue has
\* no xmlnskey and fails in nodeNamespace, so newValue is always an object.

\* tryRemoveArrays had it never replaced a list with its single element,
\* which C8 rules out
CollapsedNever(v, group, isArray) ==
  [value |-> Append(v.value, Listed(group.name, group.items)), err |-> ""]

\* tryRemoveArrays had it taken child[0] without the assertion on the length,
\* which C10 rules out
CollapsedToFirst(v, group, isArray) ==
  IF isArray THEN [value |-> Append(v.value, Listed(group.name, group.items)), err |-> ""]
  ELSE [value |-> Append(v.value, Single(group.name, group.items)), err |-> ""]

\* value[name] = child[0] after assert(child.length === 1), or value[name]
\* left as the list; v is [err, value] with the groups done so far
Collapsed(v, group, isArray) ==
  IF isArray THEN [value |-> Append(v.value, Listed(group.name, group.items)), err |-> ""]
  ELSE IF Len(group.items) # 1 THEN [value |-> v.value, err |-> "AssertionError"]
  ELSE [value |-> Append(v.value, Single(group.name, group.items)), err |-> ""]

RECURSIVE RemoveArraysAny(_, _, _, _)
RemoveArraysAny(type, children, i, v) ==
  IF v.err # "" \/ i > Len(children) THEN v
  ELSE RemoveArraysAny(type, children, i + 1,
                       Collapsed(v, children[i], type.isArray = "true"))

ChildCollapsed(v, group, e) ==
  IF e.err # "" THEN [value |-> v.value, err |-> e.err]
  ELSE Collapsed(v, group, e.element.isArray = "true")

RECURSIVE RemoveArraysChildren(_, _, _, _, _)
RemoveArraysChildren(namespace, type, children, i, v) ==
  IF v.err # "" \/ i > Len(children) THEN v
  ELSE IF validatorNamespacedName(namespace, children[i].name) \notin DOMAIN type.children
  THEN [value |-> v.value, err |-> "ValidationError"]
  ELSE RemoveArraysChildren(namespace, type, children, i + 1,
         ChildCollapsed(v, children[i],
           resolveElement(type.children[validatorNamespacedName(namespace,
                                                                 children[i].name)])))

\* one trial of tryRemoveArrays; size is _.size(value): the child tags,
\* attrkey and charkey
RemoveArraysTrial(namespace, type, size, children) ==
  IF type.anyChildren
  THEN IF size # 1 THEN [value |-> <<>>, err |-> "AssertionError"]
       ELSE RemoveArraysAny(type, children, 1, [value |-> <<>>, err |-> ""])
  ELSE IF type.hasChildren
  THEN RemoveArraysChildren(namespace, type, children, 1, [value |-> <<>>, err |-> ""])
  ELSE [value |-> <<>>, err |-> "ValidationError"]

RECURSIVE tryRemoveArraysFrom(_, _, _, _, _, _)

\* tryRemoveArrays had its trials worked on newValue itself: a group that a
\* failed trial has replaced by its single element stays replaced, which C22
\* rules out
LeftCollapsed(r, value) ==
  IF r.err # "" THEN r
  ELSE [value |-> [j \in DOMAIN r.value |->
                     IF j <= Len(value) /\ value[j].single
                     THEN Single(r.value[j].name, r.value[j].items) ELSE r.value[j]],
        err |-> ""]

RemoveArraysTriedInPlace(namespace, type, size, children, i, r) ==
  IF r.err \in {"", "loop"} THEN r
  ELSE LeftCollapsed(tryRemoveArraysFrom(namespace, type, size, children, i + 1, r.err),
                     r.value)

RemoveArraysTried(namespace, type, size, children, i, r) ==
  IF r.err \in {"", "loop"} THEN r
  ELSE tryRemoveArraysFrom(namespace, type, size, children, i + 1, r.err)

tryRemoveArraysFrom(namespace, type, size, children, i, exception) ==
  IF i > Len(type)
  THEN [value |-> <<>>, err |-> IF exception = "" THEN "AssertionError" ELSE exception]
  ELSE RemoveArraysTried(namespace, type, size, children, i,
                         RemoveArraysTrial(namespace, type[i], size, children))

tryRemoveArrays(namespace, type, size, children) ==
  tryRemoveArraysFrom(namespace, type, size, children, 1, "")

RECURSIVE normalizeNamespacesFrom(_, _, _, _, _)
normalizeNamespacesFrom(namespace, value, namespaced, i, out) ==
  IF i > Len(value) THEN out
  ELSE normalizeNamespacesFrom(namespace, value, namespaced, i + 1,
         Put(out, namespacedOrNotName(namespace, value[i].name, namespaced),
             [items |-> value[i].items, single |-> value[i].single]))

normalizeNamespaces(namespace, value, namespaced) ==
  normalizeNamespacesFrom(namespace, value, namespaced, 1, EmptyMap)

TryParseError(parse) == IF Len(parse) = 0 THEN "AssertionError" ELSE "TypeError"

StartsWithXmlns(attribute) ==
  attribute.p = "xmlns" \/ (attribute.p = "" /\ attribute.l = "xmlns")

\* one round of the loop over newValue[attrkey]; acc is [err, attrs] with the
\* attributes kept so far
AttributeParsed(namespace, attr, namespaced, acc, parse, parsed) ==
  IF parsed.thrown THEN [attrs |-> acc.attrs, err |-> TryParseError(parse)]
  ELSE [attrs |-> Put(acc.attrs, namespacedOrNotName(namespace, attr.name, namespaced),
                      parsed.v),
        err |-> ""]

AttributeParsers(namespace, attr, namespaced, hexThrows, acc, parse) ==
  IF parse.err # "" THEN [attrs |-> acc.attrs, err |-> parse.err]
  ELSE IF attr.isString \/ attr.value # <<>>
  THEN AttributeParsed(namespace, attr, namespaced, acc, parse.res,
                       tryParse(parse.res, attr.value, hexThrows))
  ELSE [attrs |-> acc.attrs, err |-> "ValidationError"]

AttributeTyped(namespace, attr, namespaced, hexThrows, acc, typeName) ==
  IF typeName.err # "" THEN [attrs |-> acc.attrs, err |-> typeName.err]
  ELSE AttributeParsers(namespace, attr, namespaced, hexThrows, acc,
                        resolveToParse(typeName.typeName))

ValidateAttribute(namespace, allowed, attr, namespaced, hexThrows, acc) ==
  IF StartsWithXmlns(attr.name) \/ attr.name.p = "xsi" THEN acc
  ELSE IF validatorNamespacedName(namespace, attr.name) \notin DOMAIN allowed
  THEN [attrs |-> acc.attrs, err |-> "ValidationError"]
  ELSE AttributeTyped(namespace, attr, namespaced, hexThrows, acc,
         resolveAttributeType(allowed[validatorNamespacedName(namespace, attr.name)]))

RECURSIVE ValidateAttributesFrom(_, _, _, _, _, _, _)
ValidateAttributesFrom(namespace, allowed, attrs, namespaced, hexThrows, i, acc) ==
  IF acc.err # "" \/ i > Len(attrs) THEN acc
  ELSE ValidateAttributesFrom(namespace, allowed, attrs, namespaced, hexThrows, i + 1,
         ValidateAttribute(namespace, allowed, attrs[i], namespaced, hexThrows, acc))

outputWithNamespace == FALSE

\* if (newValue[attrkey]) { ... }: [err, attrs]
ValidateAttributes(namespace, newValue, hexThrows, allowed) ==
  IF allowed.err # "" THEN [attrs |-> EmptyMap, err |-> allowed.err]
  ELSE ValidateAttributesFrom(namespace, allowed.attributes, newValue.attrs,
                              outputWithNamespace, hexThrows, 1,
                              [attrs |-> EmptyMap, err |-> ""])

\* one step of the walk from the root element down to the parent of the last
\* segment
DescendChildren(children) ==
  [err |-> children.err, currentElementSet |-> children.children]

DescendType(type) ==
  IF type.err # "" THEN [err |-> type.err, currentElementSet |-> EmptyMap]
  ELSE DescendChildren(tryChildren(type.res))

DescendElement(e) ==
  IF e.err # "" THEN [err |-> e.err, currentElementSet |-> EmptyMap]
  ELSE IF e.element.type = NoName
  THEN [err |-> "ValidationError", currentElementSet |-> EmptyMap]
  ELSE DescendType(resolveType(e.element.type))

Descend(currentElementSet, segment) ==
  IF segment \notin DOMAIN currentElementSet
  THEN [err |-> "ValidationError", currentElementSet |-> EmptyMap]
  ELSE DescendElement(resolveElement(currentElementSet[segment]))

RECURSIVE WalkPath(_, _, _)
WalkPath(path, i, w) ==
  IF w.err # "" \/ i > Len(path) - 1 THEN w
  ELSE WalkPath(path, i + 1, Descend(w.currentElementSet, path[i]))

Failure(err) == [value |-> NoValue, err |-> err]

\* what validator returns for a type with a parser
ContentParsed(newValue, attrs, parse, parsed) ==
  IF parsed.thrown THEN Failure(TryParseError(parse))
  ELSE IF DOMAIN attrs = {}
  THEN [value |-> Value(FALSE, parsed.v, EmptyMap, FALSE, Str(<<>>), EmptyMap), err |-> ""]
  ELSE [value |-> Value(TRUE, Str(<<>>), attrs, TRUE, parsed.v, EmptyMap), err |-> ""]

\* what validator returns for a type without a parser
ContentRemoved(namespace, newValue, attrs, removed) ==
  IF removed.err # "" THEN Failure(removed.err)
  ELSE [value |-> Value(TRUE, Str(<<>>), attrs, newValue.hasText, Str(newValue.text),
                        normalizeNamespaces(namespace, removed.value,
                                            outputWithNamespace)),
        err |-> ""]

ContentTyped(namespace, newValue, attrs, type) ==
  IF type.err # "" THEN Failure(type.err)
  ELSE ContentRemoved(namespace, newValue, attrs,
         tryRemoveArrays(namespace, type.res,
                         Len(newValue.children) + (IF DOMAIN attrs # {} THEN 1 ELSE 0)
                           + (IF newValue.hasText THEN 1 ELSE 0),
                         newValue.children))

\* validator from "var parse = resolveToParse(xpath, lastSegmentType)" on
ValidateContent(namespace, lastSegmentType, newValue, attrs, hexThrows, parse) ==
  IF parse.err # "" THEN Failure(parse.err)
  ELSE IF Len(parse.res) # 0
  THEN IF newValue.children = <<>> /\ newValue.hasText /\ newValue.text # <<>>
       THEN ContentParsed(newValue, attrs, parse.res,
                          tryParse(parse.res, newValue.text, hexThrows))
       ELSE Failure("ValidationError")
  ELSE ContentTyped(namespace, newValue, attrs, resolveType(lastSegmentType))

ValidateAttributed(namespace, lastSegmentType, newValue, hexThrows, attrs) ==
  IF attrs.err # "" THEN Failure(attrs.err)
  ELSE ValidateContent(namespace, lastSegmentType, newValue, attrs.attrs, hexThrows,
                       resolveToParse(lastSegmentType))

ValidateElement(namespace, newValue, hexThrows, e) ==
  IF e.err # "" THEN Failure(e.err)
  ELSE ValidateAttributed(namespace, e.element.type, newValue, hexThrows,
         IF newValue.attrs = <<>> THEN [attrs |-> EmptyMap, err |-> ""]
         ELSE ValidateAttributes(namespace, newValue, hexThrows,
                                 resolveToAttributes(e.element.type)))

ValidateLastSegment(namespace, newValue, hexThrows, lastSegment, w) ==
  IF w.err # "" THEN Failure(w.err)
  ELSE IF lastSegment \notin DOMAIN w.currentElementSet THEN Failure("ValidationError")
  ELSE ValidateElement(namespace, newValue, hexThrows,
                       resolveElement(w.currentElementSet[lastSegment]))

ValidatePath(newValue, hexThrows, p) ==
  IF p.err # "" THEN Failure(p.err)
  ELSE ValidateLastSegment(nodeNamespace(newValue.uri).namespace, newValue, hexThrows,
         p.path[Len(p.path)],
         WalkPath(p.path, 1, [err |-> "", currentElementSet |-> elements]))

ValidatorResult(stack, newValue, hexThrows) ==
  ValidatePath(newValue, hexThrows, createNamespacedPath(stack, newValue))

\* resolveElement had it set the isArray it takes from isArrayDefault on the
\* entry of the registry itself instead of on a copy, which C27 rules out:
\* the elements the validator resolves for the last segment and for the
\* child groups of newValue
WrittenByType(namespace, newValue, type) ==
  IF type.err # "" THEN {}
  ELSE {resolveElement(type.res[x[1]].children[
                         validatorNamespacedName(namespace, newValue.children[x[2]].name)]).element :
          x \in {y \in (1..Len(type.res)) \X (1..Len(newValue.children)) :
                   /\ type.res[y[1]].hasChildren
                   /\ validatorNamespacedName(namespace, newValue.children[y[2]].name)
                        \in DOMAIN type.res[y[1]].children}}

WrittenByElement(namespace, newValue, e) ==
  IF e.err # "" \/ e.element.type = NoName THEN {}
  ELSE {e.element} \cup WrittenByType(namespace, newValue, resolveType(e.element.type))

WrittenByWalk(namespace, newValue, lastSegment, w) ==
  IF w.err # "" \/ lastSegment \notin DOMAIN w.currentElementSet THEN {}
  ELSE WrittenByElement(namespace, newValue,
                        resolveElement(w.currentElementSet[lastSegment]))

WrittenByPath(newValue, p) ==
  IF p.err # "" THEN {}
  ELSE WrittenByWalk(nodeNamespace(newValue.uri).namespace, newValue, p.path[Len(p.path)],
                     WalkPath(p.path, 1, [err |-> "", currentElementSet |-> elements]))

WrittenOver(element, written) ==
  {e \in written : /\ element.isArray = Unset
                    /\ e.isArray # Unset
                    /\ e = [element EXCEPT !.isArray = e.isArray]}

ElementsWritten(written) ==
  [name \in DOMAIN elements |->
     IF WrittenOver(elements[name], written) = {} THEN elements[name]
     ELSE CHOOSE e \in WrittenOver(elements[name], written) : TRUE]

validatorReturnsInPlace(stack, newValue, r) ==
  /\ elements' = ElementsWritten(WrittenByPath(newValue,
                                                createNamespacedPath(stack, newValue)))
  /\ UNCHANGED <<parsedSchemas, downloadedSchemas, namespacePrefixes, types, attributes,
                 driver>>
  /\ last' = Outcome("validator",
                     IF r.err = "" THEN "ok" ELSE IF r.err = "loop" THEN "loop" ELSE "throw",
                     r.err, "", "", <<>>, stack, newValue, r.value)

\* the registries are left alone and r is what the callback returned or threw
validatorReturns(stack, newValue, r) ==
  /\ UNCHANGED <<registries, driver>>
  /\ last' = Outcome("validator",
                     IF r.err = "" THEN "ok" ELSE IF r.err = "loop" THEN "loop" ELSE "throw",
                     r.err, "", "", <<>>, stack, newValue, r.value)

validator(stack, newValue, hexThrows) ==
  validatorReturns(stack, newValue, ValidatorResult(stack, newValue, hexThrows))

-----------------------------------------------------------------------------
\* Inputs: the elements of the documents handed to the validator

Text_42 == <<"4","2">>
Text_forty_two == <<"f","o","r","t","y","-","t","w","o">>
Text_true == <<"t","r","u","e">>
Text_TRUE == <<"T","R","U","E">>
Text_false == <<"f","a","l","s","e">>
Text_0 == <<"0">>
Text_maybe == <<"m","a","y","b","e">>

Texts == {Text_42, Text_forty_two, Text_true, Text_TRUE, Text_false, Text_0, Text_1,
          Text_maybe}

\* the most occurrences of one child tag under a parent
MaxOccurrences == 2

\* the value returned for the i-th occurrence of a child
Item(i) == Str(<<ToString(i)>>)
Items(n) == [i \in 1..n |-> Item(i)]

\* the occurrences of a child as the validator returned them when it was
\* called for each: <few>, of type xs:int, comes decoded
Occurrences(child, n) ==
  [i \in 1..n |-> IF child = "few" THEN Num(i, 0) ELSE Item(i)]

U(l) == Nm("", l)
InA(name) == [name |-> U(name), uri |-> "urn:a"]

XmlnsAttributes == <<Attr(Nm("xmlns", "a"), FALSE, <<"u","r","n",":","a">>)>>

\* <code>, <flag>, <item> with a text, at the top or inside <root>
Leaves ==
  {[stack |-> stack, newValue |-> NewValue("urn:a", U(name), <<>>, TRUE, text, <<>>)] :
     stack \in {<<>>, <<InA("root")>>}, name \in {"code", "flag", "item"}, text \in Texts}

\* <root>, <box>, <memo>, <note>, <bag>, <slot> with the occurrences of one
\* child tag
Parents ==
  {[stack |-> <<>>,
    newValue |-> NewValue("urn:a", U(name), attrs, FALSE, <<>>,
                          <<Group(U(child), Occurrences(child, n))>>)] :
     name \in {"root", "box", "memo", "note", "bag", "slot"}, attrs \in {<<>>, XmlnsAttributes},
     child \in {"one", "few", "many", "item", "flag", "other"}, n \in 1..MaxOccurrences}

\* elements with two child tags, with a text, and in a namespace that is not
\* known
Others ==
  {[stack |-> <<>>,
    newValue |-> NewValue("urn:a", U("root"), <<>>, FALSE, <<>>,
                          <<Group(U("one"), Items(1)), Group(U("many"), Items(n))>>)] :
     n \in 1..MaxOccurrences}
  \cup {[stack |-> <<>>,
         newValue |-> NewValue("urn:a", U("box"), <<>>, hasText, <<>>,
                               <<Group(U("item"), Items(1)), Group(U("flag"), Items(n))>>)] :
          hasText \in BOOLEAN, n \in 1..MaxOccurrences}
  \cup {[stack |-> <<>>,
         newValue |-> NewValue("urn:a", U(name), <<>>, FALSE, <<>>,
                               <<Group(U("item"), Items(1)), Group(U("flag"), Items(1))>>)] :
          name \in {"bag", "slot"}}
  \cup {[stack |-> <<>>,
         newValue |-> NewValue("urn:c", U("root"), <<>>, FALSE, <<>>,
                               <<Group(U("one"), Items(1))>>)]}

\* attributes as xml2js gives them with xmlns: true: objects with a value
KindPlain == Attr(U("kind"), FALSE, Text_1)
KindPrefixed == Attr(Nm("a", "kind"), FALSE, Text_0)
KindEmpty == Attr(U("kind"), FALSE, <<>>)
OtherPlain == Attr(U("other"), FALSE, Text_1)
XmlnsDefault == Attr(U("xmlns"), FALSE, <<"u","r","n",":","a">>)
XsiSchemaLocation == Attr(Nm("xsi", "schemaLocation"), FALSE, Text_1)

AttributeLists ==
  {<<KindPlain>>, <<KindPrefixed>>, <<KindPlain, KindPrefixed>>, <<KindEmpty>>,
   <<OtherPlain>>, <<XsiSchemaLocation, OtherPlain>>, <<XmlnsDefault>>,
   XmlnsAttributes \o <<XsiSchemaLocation>>,
   XmlnsAttributes \o <<KindPlain, XsiSchemaLocation>>}

\* <tag>, <price> and <memo> with attributes: Tag and Price allow kind, Memo
\* allows none
Attributed ==
  {[stack |-> <<>>,
    newValue |-> NewValue("urn:a", U("tag"), attrs, FALSE, <<>>,
                          <<Group(U("one"), Items(1))>>)] : attrs \in AttributeLists}
  \cup {[stack |-> <<>>, newValue |-> NewValue("urn:a", U("price"), attrs, TRUE, Text_42, <<>>)] :
          attrs \in AttributeLists}
  \cup {[stack |-> <<>>,
         newValue |-> NewValue("urn:a", U("memo"), attrs, FALSE, <<>>,
                               <<Group(U("flag"), <<Bool(TRUE)>>)>>)] :
          attrs \in AttributeLists}

\* <code/>, <item/> and <price/>: xml2js leaves no character content on an
\* element without text; and <item>, <price> with a child
Emptied ==
  {[stack |-> <<>>, newValue |-> NewValue("urn:a", U(name), attrs, FALSE, <<>>, <<>>)] :
     name \in {"code", "item", "price"}, attrs \in {<<>>, <<KindPlain>>, XmlnsAttributes}}
  \cup {[stack |-> <<>>,
         newValue |-> NewValue("urn:a", U(name), <<>>, hasText, Text_42,
                               <<Group(U("one"), Items(1))>>)] :
          name \in {"item", "price"}, hasText \in BOOLEAN}

\* <blob> with a text that is a hex string and with texts that are not
Blobs ==
  {[stack |-> <<>>, newValue |-> NewValue("urn:a", U("blob"), <<>>, TRUE, text, <<>>)] :
     text \in {Text_42, Text_forty_two, Text_maybe}}

\* <either> with the occurrences of <flag>, and then of <item> or <one>
Eithers ==
  {[stack |-> <<>>,
    newValue |-> NewValue("urn:a", U("either"), <<>>, FALSE, <<>>,
                          <<Group(U("flag"), Items(n))>> \o rest)] :
     n \in 1..MaxOccurrences,
     rest \in {<<>>, <<Group(U("item"), Items(1))>>, <<Group(U("one"), Items(1))>>}}

\* <wheel>, which a2.xsd declares by a reference, and <ring>, of the type Ring
Wheels ==
  {[stack |-> <<>>, newValue |-> NewValue("urn:a", U(name), <<>>, TRUE, Text_1, <<>>)] :
     name \in {"wheel", "ring"}}

Documents ==
  Wheels \cup Leaves \cup Parents \cup Others \cup Attributed \cup Emptied \cup Blobs \cup Eithers

-----------------------------------------------------------------------------
\* findSchemas.  A document is given as what xml2js.parseString makes of it:
\* an error, or the tree of its elements, each with the value of its
\* xsi:schemaLocation attribute (<<>> when it has none) and its child elements
\* in the order _.each visits them.  An attribute value is written as the
\* sequence of its whitespace characters and of its runs of other characters.

Node(schemaLocation, children) == [children |-> children, schemaLocation |-> schemaLocation]

XmlDocument(err, result) == [err |-> err, result |-> result]

\* a token of split(/\s+/) as a string
Token(run) == IF run = <<>> THEN "" ELSE run[1]

\* the '$' branch of traverseFindSchemas: an empty value is falsy; multi is
\* TRUE where the pair is kept with multivalue.addValue and FALSE where it is
\* assigned
traverseAttributes(o, multi) ==
  IF o.schemaLocation = <<>> \/ o.schemaLocation[1] = <<>>
  THEN [err |-> "", foundSchemas |-> EmptyMap]
  ELSE IF Len(split(o.schemaLocation[1])) # 2
  THEN [err |-> "AssertionError", foundSchemas |-> EmptyMap]
  ELSE IF multi
  THEN [err |-> "",
        foundSchemas |-> addValue(EmptyMap, Token(split(o.schemaLocation[1])[1]),
                                  Token(split(o.schemaLocation[1])[2]))]
  ELSE [err |-> "",
        foundSchemas |-> Put(EmptyMap, Token(split(o.schemaLocation[1])[1]),
                             Token(split(o.schemaLocation[1])[2]))]

\* _.extend(foundSchemas, traverseFindSchemas(o)), or the assertion o threw
TraverseExtended(acc, r) ==
  IF r.err # "" THEN r
  ELSE [err |-> "", foundSchemas |-> Extend(acc.foundSchemas, r.foundSchemas)]

RECURSIVE traverseFindSchemas(_, _)
RECURSIVE TraverseChildren(_, _, _, _)
TraverseChildren(children, i, multi, acc) ==
  IF acc.err # "" \/ i > Len(children) THEN acc
  ELSE TraverseChildren(children, i + 1, multi,
                        TraverseExtended(acc, traverseFindSchemas(children[i], multi)))

traverseFindSchemas(obj, multi) ==
  TraverseChildren(obj.children, 1, multi, traverseAttributes(obj, multi))

\* findSchemas(str, cb): the callback is given an error or the found schemas,
\* unless the assertion throws inside the callback of xml2js.parseString
FindSchemasResult(str, multi) ==
  IF str.err THEN [status |-> "error", err |-> "ParseError", foundSchemas |-> EmptyMap]
  ELSE IF traverseFindSchemas(str.result, multi).err # ""
  THEN [status |-> "throw", err |-> traverseFindSchemas(str.result, multi).err,
        foundSchemas |-> EmptyMap]
  ELSE [status |-> "ok", err |-> "",
        foundSchemas |-> traverseFindSchemas(str.result, multi).foundSchemas]

findSchemasReturns(str, r) ==
  /\ UNCHANGED <<registries, driver>>
  /\ last' = Outcome("findSchemas", r.status, r.err, "", str,
                     IF r.status = "ok" THEN <<r.foundSchemas>> ELSE <<>>,
                     <<>>, NoNewValue, NoValue)

findSchemas(str) == findSchemasReturns(str, FindSchemasResult(str, TRUE))

\* Inputs: the values of xsi:schemaLocation, and the documents of a root
\* element with up to MaxChildren child elements
MaxChildren == 2

SchemaLocations ==
  {<<"urn:a", " ", "a.xsd">>, <<"urn:a", " ", "a2.xsd">>, <<"urn:b", " ", "b.xsd">>,
   <<"urn:a">>, <<"urn:a", " ", "a.xsd", " ", "urn:b", " ", "b.xsd">>,
   <<"urn:a", " ", "a.xsd", " ", "x">>, <<>>, <<" ", "urn:a", " ", "a.xsd">>,
   <<"urn:a", " ", "\n", "a.xsd">>}

SchemaLocationAttributes == {<<>>} \cup {<<value>> : value \in SchemaLocations}

\* the attribute of a child element: none, a pair, or one token
ChildLocationAttributes ==
  {<<>>, <<<<"urn:a", " ", "a.xsd">>>>, <<<<"urn:b", " ", "b.xsd">>>>, <<<<"urn:a">>>>}

LocatedDocuments ==
  {XmlDocument(FALSE, Node(schemaLocation, children)) :
     schemaLocation \in SchemaLocationAttributes,
     children \in UNION {[1..n -> {Node(s, <<>>) : s \in ChildLocationAttributes}] :
                           n \in 0..MaxChildren}}
  \cup {XmlDocument(FALSE, Node(<<>>, <<Node(<<>>, <<Node(<<value>>, <<>>)>>)>>)) :
          value \in SchemaLocations}
  \cup {XmlDocument(TRUE, Node(<<>>, <<>>))}

FinderNext == \E str \in LocatedDocuments : findSchemas(str)

-----------------------------------------------------------------------------
\* parseString and populateSchemas, with downloadAndAddSchema, addSchema and
\* parseImports as populateSchemas calls them: registries keyed by the
\* namespace alone.  JavaScript runs a callback to its end before the next
\* one: the run is "each" while async.each calls downloadAndAddSchema for the
\* keys of foundSchemas, one after the other, and no response is handled
\* before the last key; it is "waiting" while requests of the round are in
\* flight, "idle" between runs and "thrown" after an exception that nothing
\* catches (the process ends).
\*   foundSchemas: the work map, uri -> url    keys: the keys still to call
\*   requests: the requests in flight; live is FALSE when async.each has
\*     already called its final callback, so that the callback of this one
\*     is ignored (the registries are still written when it is answered)
\*   downloadedSchemas: uri -> body, the bodies fetched so far
\*   completions: how often the run called cb    result: what it was given
\*   validated: the document was parsed with the validator
\*   fetches: the requests the run made
\*   closure: the (namespace, url) pairs the run has met, in the document
\*     and in the imports of the schemas it compiled
\*   fetched, compiled: per namespace, the requests the run made and the
\*     bodies it handed to the compiler

Request(namespaceUrl, schemaUrl, live) ==
  [namespaceUrl |-> namespaceUrl, schemaUrl |-> schemaUrl, live |-> live]

Response(err, statusCode, body) == [err |-> err, body |-> body, statusCode |-> statusCode]

\* request(schemaUrl, ...): what the fetcher answers for each url
Web(schemaUrl) ==
  CASE schemaUrl = "a.xsd" -> Response(FALSE, 200, "a1.xsd")
    [] schemaUrl = "alt/a.xsd" -> Response(FALSE, 200, "a1.xsd")
    [] schemaUrl = "a3.xsd" -> Response(FALSE, 200, "a3.xsd")
    [] schemaUrl = "b.xsd" -> Response(FALSE, 200, "b1.xsd")
    [] schemaUrl = "b2.xsd" -> Response(FALSE, 200, "b2.xsd")
    [] schemaUrl = "b4.xsd" -> Response(FALSE, 200, "b4.xsd")
    [] schemaUrl = "b5.xsd" -> Response(FALSE, 200, "b5.xsd")
    [] schemaUrl = "junk.xsd" -> Response(FALSE, 200, "not xml")
    [] schemaUrl = "gone.xsd" -> Response(FALSE, 404, "")
    [] OTHER -> Response(TRUE, 0, "")

IdleDriver ==
  [downloadedSchemas |-> EmptyMap, result |-> "", foundSchemas |-> EmptyMap,
   str |-> XmlDocument(TRUE, Node(<<>>, <<>>)), pc |-> "idle", downloadSchemas |-> FALSE,
   keys |-> {}, requests |-> {}, completions |-> 0, validated |-> FALSE, fetches |-> 0,
   closure |-> {}, fetched |-> [namespaceUrl \in Uris |-> 0],
   compiled |-> [namespaceUrl \in Uris |-> 0]]

\* parseString(str, options, cb) was called
Started(d, str, downloadSchemas) ==
  [d EXCEPT !.pc = "each", !.str = str, !.downloadSchemas = downloadSchemas,
            !.foundSchemas = EmptyMap, !.keys = {}, !.completions = 0, !.result = "",
            !.validated = FALSE, !.fetches = 0, !.closure = {},
            !.fetched = [namespaceUrl \in Uris |-> 0],
            !.compiled = [namespaceUrl \in Uris |-> 0]]

\* cb(err) of parseString, or parser.parseString(str, cb) with the validator;
\* the keys that are left are still called
Completed(d, err) ==
  [d EXCEPT !.pc = IF d.keys = {} THEN "idle" ELSE "each",
            !.completions = @ + 1,
            !.result = IF err = "" THEN "parsed" ELSE err,
            !.validated = (err = ""),
            !.requests = {Request(r.namespaceUrl, r.schemaUrl, FALSE) : r \in @}]

\* an exception leaves a callback
Uncaught(d, err) == [d EXCEPT !.pc = "thrown", !.result = err]

\* the test of async.until and the start of async.each
UntilTested(d) ==
  IF DOMAIN d.foundSchemas = {} THEN Completed(d, "")
  ELSE [d EXCEPT !.pc = "each", !.keys = DOMAIN d.foundSchemas]

\* after the callback of one key: async.each calls its final callback when
\* every key has called back
RoundTested(d) ==
  IF d.keys # {} THEN d
  ELSE IF d.completions > 0 THEN [d EXCEPT !.pc = "idle"]
  ELSE IF \E r \in d.requests : r.live THEN [d EXCEPT !.pc = "waiting"]
  ELSE UntilTested(d)

\* populateSchemas after findSchemas gave found
PopulateSchemas(d, found) ==
  IF found.status = "error" THEN Completed(d, found.err)
  ELSE IF found.status = "throw" THEN Uncaught(d, found.err)
  ELSE IF d.downloadSchemas
  THEN UntilTested([d EXCEPT !.foundSchemas = found.foundSchemas,
                             !.closure = {ImportNode(namespaceUrl,
                                                     found.foundSchemas[namespaceUrl]) :
                                            namespaceUrl \in DOMAIN found.foundSchemas}])
  ELSE IF \E namespaceUrl \in DOMAIN found.foundSchemas : namespaceUrl \notin DOMAIN parsedSchemas
  THEN Completed(d, "MissingSchema")
  ELSE Completed(d, "")

xml4jsParseString(str, downloadSchemas) ==
  /\ driver.pc = "idle"
  /\ driver' = PopulateSchemas(Started(driver, str, downloadSchemas),
                               FindSchemasResult(str, FALSE))
  /\ UNCHANGED <<registries, last>>

\* parseImports: the imports of namespaces that are not parsed yet
RECURSIVE parseImportsFrom(_, _, _)
parseImportsFrom(imports, i, pendingImports) ==
  IF i > Len(imports) THEN pendingImports
  ELSE parseImportsFrom(imports, i + 1,
         IF imports[i].namespace \in DOMAIN parsedSchemas THEN pendingImports
         ELSE Put(pendingImports, imports[i].namespace, imports[i].schemaLocation))

parseImports(schema) == parseImportsFrom(schema.imports, 1, EmptyMap)

\* cb(null, pendingImports) where the schema was compiled
WithPendingImports(r, schemaContent) ==
  IF r.status = "ok"
  THEN [r EXCEPT !.imports = <<parseImports(parseString(schemaContent).result)>>]
  ELSE r

\* cb(): no error and no pending imports, and nothing is written
NoArguments ==
  Left(namespacePrefixes, types, elements, attributes, parsedSchemas, "ok", "", <<>>)

\* addSchema as populateSchemas reaches it: cb() when the namespace is parsed
DriverAddSchema(namespaceUrl, schemaContent, rnd) ==
  IF namespaceUrl \in DOMAIN parsedSchemas THEN NoArguments
  ELSE WithPendingImports(Parsed(namespaceUrl, schemaContent, rnd, parseString(schemaContent)),
                          schemaContent)

\* the registries are left as r says
Committed(r) ==
  /\ namespacePrefixes' = r.namespacePrefixes
  /\ types' = r.types
  /\ elements' = r.elements
  /\ attributes' = r.attributes
  /\ parsedSchemas' = r.parsedSchemas
  /\ UNCHANGED <<downloadedSchemas, last>>

\* the loop over pendingImports in the callback of populateSchemas
Mismatched(foundSchemas, pendingImports) ==
  \E pendingNamespaceUrl \in DOMAIN pendingImports \cap DOMAIN foundSchemas :
    foundSchemas[pendingNamespaceUrl] # pendingImports[pendingNamespaceUrl]

\* foundSchemas with the pending imports, and then without the key processed
Merged(foundSchemas, pendingImports, namespaceUrl) ==
  [k \in ((DOMAIN foundSchemas) \cup (DOMAIN pendingImports)) \ {namespaceUrl} |->
     IF k \in DOMAIN foundSchemas THEN foundSchemas[k] ELSE pendingImports[k]]

PendingImports(r) == IF r.imports = <<>> THEN EmptyMap ELSE r.imports[1]

\* the callback populateSchemas gives downloadAndAddSchema, called with the
\* outcome r of addSchema; live: async.each still listens to it
CalledBack(d, namespaceUrl, live, r) ==
  IF r.status = "throw" THEN Uncaught(d, r.error)
  ELSE IF ~live THEN RoundTested(d)
  ELSE IF r.status = "error" THEN Completed(d, r.error)
  ELSE IF Mismatched(d.foundSchemas, PendingImports(r))
  THEN Uncaught(d, "MismatchedSchemaLocation")
  ELSE RoundTested([d EXCEPT !.foundSchemas = Merged(@, PendingImports(r), namespaceUrl)])

\* the run has compiled schemaContent, with the outcome r
Met(d, namespaceUrl, live, r, schemaContent) ==
  IF live /\ namespaceUrl \notin DOMAIN parsedSchemas
  THEN IF r.status = "ok" /\ r.parsedSchemas # parsedSchemas
       THEN [d EXCEPT !.compiled[namespaceUrl] = @ + 1,
                      !.closure = @ \cup {parseString(schemaContent).result.imports[i] :
                                    i \in DOMAIN parseString(schemaContent).result.imports}]
       ELSE [d EXCEPT !.compiled[namespaceUrl] = @ + 1]
  ELSE d

\* request(schemaUrl, ...) was called
Requested(d, namespaceUrl) ==
  RoundTested([d EXCEPT !.requests = @ \cup {Request(namespaceUrl, d.foundSchemas[namespaceUrl],
                                                      d.completions = 0)},
                        !.fetches = @ + 1, !.fetched[namespaceUrl] = @ + 1])

\* downloadAndAddSchema had it made its request without looking at
\* parsedSchemas and downloadedSchemas, which C30 rules out
downloadAndAddSchemaAlways(namespaceUrl, rnd) ==
  /\ driver.pc = "each"
  /\ namespaceUrl \in driver.keys
  /\ driver' = Requested([driver EXCEPT !.keys = @ \ {namespaceUrl}], namespaceUrl)
  /\ UNCHANGED <<registries, last>>

\* one call of downloadAndAddSchema by async.each
downloadAndAddSchema(namespaceUrl, rnd) ==
  /\ driver.pc = "each"
  /\ namespaceUrl \in driver.keys
  /\ IF namespaceUrl \in DOMAIN parsedSchemas
     THEN /\ driver' = CalledBack([driver EXCEPT !.keys = @ \ {namespaceUrl}], namespaceUrl,
                                  driver.completions = 0, NoArguments)
          /\ UNCHANGED <<registries, last>>
     ELSE IF namespaceUrl \in DOMAIN driver.downloadedSchemas
     THEN /\ driver' = CalledBack(Met([driver EXCEPT !.keys = @ \ {namespaceUrl}],
                                      namespaceUrl, driver.completions = 0,
                                      DriverAddSchema(namespaceUrl,
                                                      driver.downloadedSchemas[namespaceUrl],
                                                      rnd),
                                      driver.downloadedSchemas[namespaceUrl]),
                                  namespaceUrl, driver.completions = 0,
                                  DriverAddSchema(namespaceUrl,
                                                  driver.downloadedSchemas[namespaceUrl], rnd))
          /\ Committed(DriverAddSchema(namespaceUrl, driver.downloadedSchemas[namespaceUrl],
                                       rnd))
     ELSE /\ driver' = Requested([driver EXCEPT !.keys = @ \ {namespaceUrl}], namespaceUrl)
          /\ UNCHANGED <<registries, last>>

\* the callback of request: an error, a status that is not 200, or the body,
\* which is kept and handed to addSchema
requestCallback(req, rnd) ==
  /\ driver.pc \in {"idle", "waiting"}
  /\ req \in driver.requests
  /\ IF Web(req.schemaUrl).err \/ Web(req.schemaUrl).statusCode # 200
     THEN /\ driver' = CalledBack([driver EXCEPT !.requests = @ \ {req}], req.namespaceUrl,
                                  req.live,
                                  Failed(namespacePrefixes, "error", "HttpError"))
          /\ UNCHANGED <<registries, last>>
     ELSE /\ driver' = CalledBack(Met([driver EXCEPT !.requests = @ \ {req},
                                                     !.downloadedSchemas =
                                                       Put(@, req.namespaceUrl,
                                                           Web(req.schemaUrl).body)],
                                      req.namespaceUrl, req.live,
                                      DriverAddSchema(req.namespaceUrl,
                                                      Web(req.schemaUrl).body, rnd),
                                      Web(req.schemaUrl).body),
                                  req.namespaceUrl, req.live,
                                  DriverAddSchema(req.namespaceUrl, Web(req.schemaUrl).body,
                                                  rnd))
          /\ Committed(DriverAddSchema(req.namespaceUrl, Web(req.schemaUrl).body, rnd))

\* Inputs: documents with the hints of one or two elements
Hinted(root, children) ==
  XmlDocument(FALSE, Node(root, [i \in DOMAIN children |-> Node(children[i], <<>>)]))

Hint(namespaceUrl, schemaUrl) == <<<<namespaceUrl, " ", schemaUrl>>>>

HintedDocuments ==
  {Hinted(Hint("urn:a", "a.xsd"), <<>>),
   Hinted(Hint("urn:a", "alt/a.xsd"), <<>>),
   Hinted(Hint("urn:a", "a.xsd"), <<Hint("urn:b", "b2.xsd")>>),
   Hinted(Hint("urn:a", "a.xsd"), <<Hint("urn:b", "b.xsd")>>),
   Hinted(Hint("urn:a", "a3.xsd"), <<>>),
   Hinted(Hint("urn:b", "b4.xsd"), <<>>),
   Hinted(Hint("urn:b", "b5.xsd"), <<>>),
   Hinted(Hint("urn:b", "junk.xsd"), <<>>),
   Hinted(Hint("urn:b", "gone.xsd"), <<Hint("urn:a", "a.xsd")>>),
   Hinted(Hint("urn:b", "down.xsd"), <<>>),
   Hinted(<<<<"urn:a">>>>, <<>>),
   Hinted(Hint("urn:a", "a.xsd"), << <<<<"urn:b">>>> >>),
   Hinted(<<>>, <<>>),
   XmlDocument(TRUE, Node(<<>>, <<>>))}

Requests ==
  {Request(namespaceUrl, schemaUrl, live) :
     namespaceUrl \in Uris, live \in BOOLEAN,
     schemaUrl \in {"a.xsd", "alt/a.xsd", "a3.xsd", "b.xsd", "b2.xsd", "b4.xsd", "b5.xsd",
                    "junk.xsd", "gone.xsd", "down.xsd"}}

DriverNext ==
  \/ \E str \in HintedDocuments, downloadSchemas \in BOOLEAN :
       xml4jsParseString(str, downloadSchemas)
  \/ \E namespaceUrl \in Uris, rnd \in Draws : downloadAndAddSchema(namespaceUrl, rnd)
  \/ \E req \in Requests, rnd \in Draws : requestCallback(req, rnd)

-----------------------------------------------------------------------------
Init ==
  /\ parsedSchemas = EmptyMap
  /\ downloadedSchemas = EmptyMap
  /\ namespacePrefixes = BASE_NAMESPACES
  /\ types = BASE_TYPES
  /\ elements = EmptyMap
  /\ attributes = EmptyMap
  /\ last = Outcome("none", "ok", "", "", "", <<>>, <<>>, NoNewValue, NoValue)
  /\ driver = IdleDriver

\* BASE_TYPES[typeName].parse(value), called on its own
parseReturns(typeName, value, r) ==
  /\ UNCHANGED <<registries, driver>>
  /\ last' = Outcome("parse", IF r.thrown THEN "throw" ELSE "ok",
                     IF r.thrown THEN "TypeError" ELSE "", "", "", <<>>, <<>>,
                     NewValue("", typeName, <<>>, TRUE, value, <<>>),
                     Value(FALSE, r.v, EmptyMap, FALSE, Str(<<>>), EmptyMap))

parse(typeName, value, hexThrows) ==
  parseReturns(typeName, value, ApplyParser(BASE_TYPES[typeName].parse, value, hexThrows))

\* the schemas a validated document is checked against
ValidatedBodies == {"a1.xsd", "a2.xsd"}

SchemaNext ==
  \E namespaceUrl \in Uris, schemaContent \in Bodies, rnd \in Draws :
    addSchema(namespaceUrl, schemaContent, rnd)

ValidatorNext ==
  \/ \E schemaContent \in ValidatedBodies, rnd \in Draws :
       addSchema("urn:a", schemaContent, rnd)
  \/ \E document \in Documents, hexThrows \in BOOLEAN :
       validator(document.stack, document.newValue, hexThrows)

ParserNext ==
  \E typeName \in XS_TYPES, value \in Texts, hexThrows \in BOOLEAN :
    parse(typeName, value, hexThrows)

Next == SchemaNext \/ ValidatorNext \/ ParserNext \/ FinderNext \/ DriverNext

Spec == Init /\ [][Next]_vars
SpecSchemas == Init /\ [][SchemaNext]_vars
SpecValidator == Init /\ [][ValidatorNext]_vars
SpecParsers == Init /\ [][ParserNext]_vars
SpecFinder == Init /\ [][FinderNext]_vars
SpecDriver == Init /\ [][DriverNext]_vars

-----------------------------------------------------------------------------
\* Properties of addSchema, checked under SpecSchemas.  A step of addSchema is
\* recognised by last', which holds its arguments and what its callback got.

C2_AllOrNothing ==
  [][(last'.op = "addSchema" /\ last'.status # "ok")
       => UNCHANGED <<namespacePrefixes, types, elements, attributes, parsedSchemas>>]_vars

\* the entries of a registry are still there, as they were
Kept(registry, later) ==
  \A key \in DOMAIN registry : key \in DOMAIN later /\ later[key] = registry[key]

\* C3: a key present in the types, elements or attributes registry keeps the
\* entry it was first given; no later addSchema replaces or removes it
C3_WriteOnce ==
  [][Kept(types, types') /\ Kept(elements, elements') /\ Kept(attributes, attributes')]_vars

\* the root of the body declares a URI that np binds to another prefix
Conflicting(np, schemaContent) ==
  /\ ~parseString(schemaContent).err
  /\ parseString(schemaContent).result.hasAttrs
  /\ \E i \in DOMAIN parseString(schemaContent).result.xmlns :
       /\ parseString(schemaContent).result.xmlns[i].uri # XMLSchemaUri
       /\ parseString(schemaContent).result.xmlns[i].uri \in DOMAIN np
       /\ np[parseString(schemaContent).result.xmlns[i].uri]
            # parseString(schemaContent).result.xmlns[i].prefix

\* C4: the namespace-prefix table binds each URI to one prefix and a binding
\* never changes once set: an addSchema whose root declares an already-known
\* URI with a different prefix fails with a namespace conflict and the binding
\* is kept
C4_PrefixKept ==
  [][/\ Kept(namespacePrefixes, namespacePrefixes')
     /\ (last'.op = "addSchema" /\ Conflicting(namespacePrefixes, last'.body))
          => last'.status = "error" /\ last'.error = "NamespaceConflict"]_vars

\* b2.xsd, which declares urn:a as z, was refused when urn:a was bound to a
C4_Witness ==
  /\ last.op = "addSchema" /\ last.body = "b2.xsd"
  /\ last.error = "NamespaceConflict"
  /\ "urn:a" \in DOMAIN namespacePrefixes /\ namespacePrefixes["urn:a"] = "a"

-----------------------------------------------------------------------------
\* Properties of the value parsers, checked under SpecParsers

\* C5: the boolean parser returns true for "true" and "1" and false for
\* "false" and "0", compared without regard to case: the boolean value of its
\* input, not whether the input is a boolean token
C5_BooleanValue ==
  (/\ last.op = "parse"
   /\ last.newValue.name = Nm("", "boolean")
   /\ toLowerCase(last.newValue.text) \in BooleanTokens)
    => /\ last.status = "ok"
       /\ last.value.v = Bool(toLowerCase(last.newValue.text) \in {Text_true, Text_1})

-----------------------------------------------------------------------------
\* Properties of the validator, checked under SpecValidator.  They are about
\* the element the validator was called for last, when it is a top-level
\* element the schemas declare.

LastTopLevel ==
  /\ last.op = "validator"
  /\ last.stack = <<>>
  /\ last.newValue.uri \in DOMAIN namespacePrefixes
  /\ Nm(namespacePrefixes[last.newValue.uri], last.newValue.name.l) \in DOMAIN elements

LastNamespace == namespacePrefixes[last.newValue.uri]
LastElement == resolveElement(elements[Nm(LastNamespace, last.newValue.name.l)]).element
LastParsers == resolveToParse(LastElement.type).res
LastTypes == resolveType(LastElement.type).res

\* the text is not a token of the lexical space the parser is for
Malformed(parser, text) ==
  \/ parser = "boolean" /\ toLowerCase(text) \notin BooleanTokens
  \/ parser = "integer" /\ parseInt(text) = NaN

\* C6: a value parser fails on malformed input instead of returning a value:
\* a boolean leaf with a token outside {true, false, 0, 1} and an integer leaf
\* with a text that is not a number make the validation of the document fail
C6_MalformedFails ==
  (/\ LastTopLevel
   /\ Len(LastParsers) = 1
   /\ Malformed(LastParsers[1], last.newValue.text))
    => last.status = "throw"

\* C7: a leaf whose type is the union of int and string validates for "42",
\* which is output as the number 42, and for "forty-two", which is output as
\* the unchanged string
C7_UnionOfIntAndString ==
  (/\ LastTopLevel
   /\ LastParsers = <<"integer", "identity">>
   /\ last.newValue.text \in {Text_42, Text_forty_two})
    => /\ last.status = "ok"
       /\ last.value.v = IF last.newValue.text = Text_42 THEN Num(42, 0)
                         ELSE Str(last.newValue.text)

\* the child specs of the element's type as tryChildren gives them, the name
\* of a child group in them, and the group in the value that was returned
LastChildren == tryChildren(LastTypes).children
ChildName(group) == validatorNamespacedName(LastNamespace, group.name)
Output(group) == last.value.children[Nm("", group.name.l)]

Declared(group) == ChildName(group) \in DOMAIN LastChildren

\* the child spec of the group resolves to not-an-array
NotArray(group) ==
  /\ resolveElement(LastChildren[ChildName(group)]).err = ""
  /\ resolveElement(LastChildren[ChildName(group)]).element.isArray # "true"

Groups == {last.newValue.children[i] : i \in DOMAIN last.newValue.children}

\* no type of the element takes any element as a child (<any>)
NoWildcard == \A i \in DOMAIN LastTypes : ~LastTypes[i].anyChildren

\* the type of the element resolves to one type: it is not a union, whose
\* member types tryRemoveArrays tries one after the other, each with its own
\* child specs
OneType == Len(LastTypes) = 1

\* the validator returned an object for an element with a complex type
ValidatedComplex ==
  /\ LastTopLevel
  /\ last.status = "ok"
  /\ last.value.isObject
  /\ tryChildren(LastTypes).err = ""

ComplexTypesOf(schemaContent) ==
  {parseString(schemaContent).result.complexType[i] :
     i \in DOMAIN parseString(schemaContent).result.complexType}

ElementsOf(complexType) ==
  IF complexType.sequence = <<>> THEN {}
  ELSE {complexType.sequence[1].element[j] : j \in DOMAIN complexType.sequence[1].element}

DeclaredUnbounded(schemaContent, namespace, typeName) ==
  {IF element.ref # NoName THEN element.ref ELSE Nm(namespace, element.name.l) :
     element \in
       {e \in UNION {ElementsOf(complexType) :
                       complexType \in {t \in ComplexTypesOf(schemaContent) :
                                          t.name.l = typeName}} :
          e.maxOccurs = Unbounded}}

\* C9: a child declared with maxOccurs="unbounded" in a complex type, by name
\* or by ref to a global element, is a sequence in the output for any number
\* of occurrences from one on, and the validation does not fail because of
\* the number of its occurrences
C9_UnboundedIsSequence ==
  (/\ LastTopLevel
   /\ hasValue(parsedSchemas, "urn:a", "a1.xsd")
   /\ LastElement.type = A("Root"))
    => /\ (\A group \in Groups :
             ChildName(group) \in DeclaredUnbounded("a1.xsd", "a", "Root"))
            => last.status = "ok"
       /\ last.status = "ok"
            => \A group \in Groups :
                 ChildName(group) \in DeclaredUnbounded("a1.xsd", "a", "Root")
                   => ~Output(group).single /\ Output(group).items = group.items

\* some child group has two or more occurrences and a child spec that
\* resolves to not-an-array
Repeated ==
  \E group \in Groups : Declared(group) /\ NotArray(group) /\ Len(group.items) >= 2

\* the value returned has every occurrence of every child group
NothingDropped ==
  (LastTopLevel /\ last.status = "ok" /\ last.value.isObject)
    => \A group \in Groups : Output(group).items = group.items

-----------------------------------------------------------------------------
\* Boundary cases of maxOccurs, checked under SpecValidator

\* C11: for a child declared with maxOccurs="3" and an integer type, an
\* element with exactly one occurrence of it, <few>1</few>, is validated and
\* has the decoded integer 1 as the value of the child, not a sequence of
\* length 1
C11_OneOfThree ==
  (/\ LastTopLevel
   /\ hasValue(parsedSchemas, "urn:a", "a1.xsd")
   /\ LastElement.type = A("Root")
   /\ last.newValue.children = <<Group(U("few"), <<Num(1, 0)>>)>>)
    => /\ last.status = "ok"
       /\ Output(Group(U("few"), <<Num(1, 0)>>)).single
       /\ Output(Group(U("few"), <<Num(1, 0)>>)).items = <<Num(1, 0)>>


\* the <sequence> of the complex types typeName of a schema that holds an
\* <any> with no maxOccurs of its own
WildcardSequences(schemaContent, typeName) ==
  {complexType.sequence[1] :
     complexType \in {t \in ComplexTypesOf(schemaContent) :
                        /\ t.name.l = typeName
                        /\ t.sequence # <<>>
                        /\ t.sequence[1].any # <<>>
                        /\ t.sequence[1].any[1].maxOccurs = <<>>}}

\* the validator was called for a top-level element of urn:a whose type holds
\* such an <any>, in the sequence
LastWildcard(sequence) ==
  /\ LastTopLevel
  /\ hasValue(parsedSchemas, "urn:a", "a1.xsd")
  /\ LastElement.type.p = "a"
  /\ sequence \in WildcardSequences("a1.xsd", LastElement.type.l)

\* the element holds child tags only: no text and no attribute but xmlns
OnlyChildren ==
  /\ ~last.newValue.hasText
  /\ \A i \in DOMAIN last.newValue.attrs : StartsWithXmlns(last.newValue.attrs[i].name)

OneOfEach == \A group \in Groups : Len(group.items) = 1

\* C12 as stated: with an <any> that has no maxOccurs of its own, every child
\* group is a sequence when the enclosing <sequence> has maxOccurs above one or
\* unbounded, and a single value when it has none; in the latter case the
\* element is valid whenever each of its groups has one occurrence
C12_AsStated ==
  \A sequence \in WildcardSequences("a1.xsd", "Bag") \cup WildcardSequences("a1.xsd", "Slot") :
    LastWildcard(sequence)
      => /\ (sequence.maxOccurs # <<>> /\ MaxOccursIsArray(sequence.maxOccurs) = "true"
             /\ last.status = "ok")
              => \A group \in Groups : ~Output(group).single
         /\ (sequence.maxOccurs = <<>> /\ last.status = "ok")
              => \A group \in Groups : Output(group).single
         /\ (sequence.maxOccurs = <<>> /\ OnlyChildren /\ Groups # {} /\ OneOfEach)
              => last.status = "ok"

\* C12, amended: as above, but in the latter case the element is valid when
\* its one child group has one occurrence (the <any> takes one child tag)
C12_AnyDefault ==
  \A sequence \in WildcardSequences("a1.xsd", "Bag") \cup WildcardSequences("a1.xsd", "Slot") :
    LastWildcard(sequence)
      => /\ (sequence.maxOccurs # <<>> /\ MaxOccursIsArray(sequence.maxOccurs) = "true"
             /\ last.status = "ok")
              => \A group \in Groups : ~Output(group).single
         /\ (sequence.maxOccurs = <<>> /\ last.status = "ok")
              => \A group \in Groups : Output(group).single
         /\ (sequence.maxOccurs = <<>> /\ OnlyChildren /\ Len(last.newValue.children) = 1
             /\ OneOfEach)
              => last.status = "ok"

\* a <bag> was validated and its one child group is a sequence of one
C12_Witness ==
  /\ \E sequence \in WildcardSequences("a1.xsd", "Bag") :
       LastWildcard(sequence) /\ sequence.maxOccurs = Unbounded
  /\ last.newValue.name = U("bag")
  /\ last.status = "ok"
  /\ \E group \in Groups : Len(group.items) = 1 /\ ~Output(group).single


-----------------------------------------------------------------------------
\* Properties of findSchemas, checked under SpecFinder

\* the values of the xsi:schemaLocation attributes of a tree
RECURSIVE LocationsOf(_)
LocationsOf(o) ==
  (IF o.schemaLocation = <<>> THEN {} ELSE {o.schemaLocation[1]})
    \cup UNION {LocationsOf(o.children[i]) : i \in DOMAIN o.children}

\* the namespaces of the pairs of a tree whose attributes are pairs, and the
\* urls given for a namespace
NamespacesOf(o) == {Token(split(value)[1]) : value \in LocationsOf(o)}
UrlsOf(o, namespaceUrl) ==
  {Token(split(value)[2]) :
     value \in {v \in LocationsOf(o) : Token(split(v)[1]) = namespaceUrl}}

\* C13: findSchemas rejects a document with an xsi:schemaLocation attribute
\* whose whitespace-split token list is not one (namespace, url) pair; for a
\* document where every such attribute has two tokens it returns, for each
\* namespace, the set of all the urls given for it anywhere in the document
C13_FindSchemas ==
  (last.op = "findSchemas" /\ ~last.body.err)
    => /\ (\E value \in LocationsOf(last.body.result) : Len(split(value)) # 2)
            => last.status # "ok"
       /\ (\A value \in LocationsOf(last.body.result) : Len(split(value)) = 2)
            => /\ last.status = "ok"
               /\ last.imports =
                    <<[namespaceUrl \in NamespacesOf(last.body.result) |->
                         UrlsOf(last.body.result, namespaceUrl)]>>


-----------------------------------------------------------------------------
\* Properties of parseString and populateSchemas, checked under SpecDriver

\* the run has met two urls for one namespace
TwoUrls ==
  \E one \in driver.closure, other \in driver.closure :
    one.namespace = other.namespace /\ one.schemaLocation # other.schemaLocation

\* C14: with downloading enabled, a run that meets two different urls for one
\* namespace fails with a mismatched-schema-location error, in whichever order
\* the downloads of a round are answered and even if the namespace has been
\* processed before: no such run ends with the document parsed
C14_MismatchFails ==
  (driver.downloadSchemas /\ TwoUrls /\ driver.pc = "idle") => driver.result # "parsed"


\* populateSchemas was at work on the hints of the document when an exception
\* left a callback: nothing is called any more, cb of parseString included
Stopped == driver.downloadSchemas /\ driver.pc = "thrown" /\ driver.closure # {}

\* C15: with downloading enabled populateSchemas eventually calls its
\* callback, whatever the schemas import (each other, or their own namespace),
\* so it never stops before it has called it; and it calls it without an
\* error only when the work map is empty
C15_Completes ==
  /\ ~(Stopped /\ driver.completions = 0)
  /\ (driver.downloadSchemas /\ driver.result = "parsed") => driver.foundSchemas = EmptyMap

\* the document that refers to urn:a at a.xsd: the schema served there imports
\* urn:b from b.xsd, and that one imports urn:a from a.xsd
CycleDocument == Hinted(Hint("urn:a", "a.xsd"), <<>>)

\* parseString with downloading enabled has parsed the cycle document
CycleParsed ==
  /\ driver.str = CycleDocument
  /\ driver.downloadSchemas
  /\ driver.pc = "idle"
  /\ driver.result = "parsed"

BothOnce ==
  /\ {"urn:a", "urn:b"} \subseteq DOMAIN parsedSchemas
  /\ Cardinality(parsedSchemas["urn:a"]) = 1
  /\ Cardinality(parsedSchemas["urn:b"]) = 1

\* the steps of a further parseString of the cycle document: the call when
\* the document has just been parsed, and the call of downloadAndAddSchema
\* for urn:a, which is parsed, by its async.each
FurtherStep ==
  \/ CycleParsed /\ xml4jsParseString(CycleDocument, TRUE)
  \/ /\ driver.str = CycleDocument /\ driver.downloadSchemas /\ driver.completions = 0
     /\ "urn:a" \in DOMAIN parsedSchemas
     /\ \E rnd \in Draws : downloadAndAddSchema("urn:a", rnd)

\* C16: when parseString with downloading enabled has parsed the document of
\* the import cycle urn:a <-> urn:b, each of the two namespaces is in
\* parsedSchemas with exactly one body; a further parseString of the document
\* changes no registry and fetches nothing, and parses the document
C16_Cycle ==
  [][/\ CycleParsed' => BothOnce'
     /\ FurtherStep
          => /\ UNCHANGED registries
             /\ driver'.downloadedSchemas = driver.downloadedSchemas
             /\ driver'.requests = driver.requests
             /\ driver'.fetches = 0
             /\ driver'.pc = "each" \/ CycleParsed']_vars


\* the document has an xsi:schemaLocation pair for a namespace that is not parsed
MissingHint(str) ==
  /\ ~str.err
  /\ \E value \in LocationsOf(str.result) :
       /\ Len(split(value)) = 2
       /\ Token(split(value)[1]) \notin DOMAIN parsedSchemas

\* C17: parseString without downloadSchemas makes no request, and for a
\* document with an xsi:schemaLocation hint for a namespace that is not in
\* parsedSchemas it completes with the missing-schema error, the validator
\* not run and every registry as it was
C17_NoDownload ==
  [][\A str \in HintedDocuments :
       xml4jsParseString(str, FALSE)
         => /\ driver'.fetches = 0
            /\ {r.schemaUrl : r \in driver'.requests} \subseteq {r.schemaUrl : r \in driver.requests}
            /\ \A r \in driver'.requests : r \in driver.requests \/ ~r.live
            /\ MissingHint(str)
                 => /\ driver'.pc = "idle"
                    /\ driver'.completions = 1
                    /\ driver'.result = "MissingSchema"
                    /\ ~driver'.validated
                    /\ driver'.downloadedSchemas = driver.downloadedSchemas
                    /\ UNCHANGED registries]_vars


\* C18: every failure of parseString and of the operations it calls reaches
\* the callback of parseString, which is invoked exactly once per call: no
\* exception leaves a callback, the callback is not invoked twice, and a run
\* that is over has invoked it
C18_Delivered ==
  /\ driver.pc # "thrown"
  /\ driver.completions <= 1
  /\ (driver.pc = "idle" /\ driver.str # IdleDriver.str) => driver.completions = 1


\* the attributes of the element that are content: not xmlns*, not xsi:*
Wiring(attribute) == StartsWithXmlns(attribute) \/ attribute.p = "xsi"
ContentAttributes == {i \in DOMAIN last.newValue.attrs : ~Wiring(last.newValue.attrs[i].name)}

\* the attributes the type of the element allows
LastAllowed == resolveToAttributes(LastElement.type).attributes
Allowed(i) ==
  validatorNamespacedName(LastNamespace, last.newValue.attrs[i].name) \in DOMAIN LastAllowed

\* the validator was called for a top-level element that a1.xsd declares,
\* with attributes
LastAttributed ==
  /\ last.op = "validator"
  /\ last.stack = <<>>
  /\ last.newValue.attrs # <<>>
  /\ parsedSchemas = "urn:a" :> {"a1.xsd"}

\* C19: the attributes of the output of a validated element are exactly the
\* input attributes that are neither xmlns* nor xsi:*, each under its own
\* name and each allowed by the type of the element; an attribute that is
\* neither xmlns*, xsi:* nor allowed makes the validation fail with a
\* ValidationError; xmlns* and xsi:* attributes change nothing in the outcome,
\* and without other attributes the output has no attributes
C19_Attributes ==
  LastAttributed
    => /\ last.status = "ok"
            => /\ \A i \in ContentAttributes : Allowed(i)
               /\ DOMAIN last.value.attrs = {Nm("", last.newValue.attrs[i].name.l) : i \in ContentAttributes}
               /\ Cardinality(DOMAIN last.value.attrs) = Cardinality(ContentAttributes)
       /\ (\E i \in ContentAttributes : ~Allowed(i))
            => last.status = "throw" /\ last.error = "ValidationError"
       /\ ContentAttributes = {}
            => /\ ValidatorResult(<<>>, [last.newValue EXCEPT !.attrs = <<>>], FALSE).err = last.error
               /\ ValidatorResult(<<>>, [last.newValue EXCEPT !.attrs = <<>>], FALSE).value = last.value
               /\ last.status = "ok" => DOMAIN last.value.attrs = {}


\* what the validator makes of the attributes of the element, and of its
\* character content (the empty string when xml2js has left none)
LastAttributes ==
  IF last.newValue.attrs = <<>> THEN [attrs |-> EmptyMap, err |-> ""]
  ELSE ValidateAttributes(LastNamespace, last.newValue, FALSE,
                          resolveToAttributes(LastElement.type))
LastContent == tryParse(LastParsers, last.newValue.text, FALSE)

\* the validator was called for a top-level element of a1.xsd whose type
\* resolves to parsers, and its attributes were accepted
LastCoerced ==
  /\ LastTopLevel
  /\ parsedSchemas = "urn:a" :> {"a1.xsd"}
  /\ resolveToParse(LastElement.type).err = ""
  /\ Len(LastParsers) # 0
  /\ LastAttributes.err = ""

\* C20: for an element whose type resolves to parsers the validator fails
\* with a ValidationError when the element has a child group; otherwise, its
\* character content being one the parsers accept, it returns the parsed
\* content alone when no attribute is left, and the object with the
\* attributes and the parsed content when attributes are left -- the empty
\* character content included
C20_Coercion ==
  LastCoerced
    => /\ last.newValue.children # <<>>
            => last.status = "throw" /\ last.error = "ValidationError"
       /\ (last.newValue.children = <<>> /\ ~LastContent.thrown)
            => /\ last.status = "ok"
               /\ DOMAIN LastAttributes.attrs = {}
                    => last.value = Value(FALSE, LastContent.v, EmptyMap, FALSE, Str(<<>>), EmptyMap)
               /\ DOMAIN LastAttributes.attrs # {}
                    => last.value = Value(TRUE, Str(<<>>), LastAttributes.attrs, TRUE,
                                          LastContent.v, EmptyMap)


\* the result of the first parser of the list, from the i-th on, that does
\* not fail on value; thrown when each fails
RECURSIVE InListOrder(_, _, _, _)
InListOrder(parsers, value, hexThrows, i) ==
  IF i > Len(parsers) THEN Thrown
  ELSE IF ApplyParser(parsers[i], value, hexThrows).thrown
  THEN InListOrder(parsers, value, hexThrows, i + 1)
  ELSE ApplyParser(parsers[i], value, hexThrows)

\* the validator was called for a top-level element of a1.xsd that has a
\* text and nothing else, and whose type resolves to parsers
LastParsed ==
  /\ LastCoerced
  /\ last.newValue.attrs = <<>>
  /\ last.newValue.children = <<>>
  /\ last.newValue.hasText
  /\ last.newValue.text # <<>>

\* C21: tryParse goes through the parsers in the order of the list and
\* returns the result of the first that does not fail on the value (with the
\* Buffer of one of the two runtimes); it fails when each of them fails
C21_InListOrder ==
  LastParsed
    => \E hexThrows \in BOOLEAN :
         IF InListOrder(LastParsers, last.newValue.text, hexThrows, 1).thrown
         THEN last.status = "throw"
         ELSE /\ last.status = "ok"
              /\ last.value.v = InListOrder(LastParsers, last.newValue.text, hexThrows, 1).v


\* the result of the first trial, from the i-th type on, that succeeds on
\* the child groups as the caller passed them
RECURSIVE OnFreshCopy(_, _, _, _, _)
OnFreshCopy(namespace, type, size, children, i) ==
  IF i > Len(type) THEN [value |-> <<>>, err |-> "none"]
  ELSE IF RemoveArraysTrial(namespace, type[i], size, children).err = ""
  THEN RemoveArraysTrial(namespace, type[i], size, children)
  ELSE OnFreshCopy(namespace, type, size, children, i + 1)

\* the validator was called for a top-level element of a1.xsd with child
\* groups only, whose type resolves to several types
LastTried ==
  /\ LastTopLevel
  /\ parsedSchemas = "urn:a" :> {"a1.xsd"}
  /\ last.newValue.attrs = <<>>
  /\ ~last.newValue.hasText
  /\ Len(LastParsers) = 0
  /\ Len(LastTypes) > 1

LastFresh ==
  OnFreshCopy(LastNamespace, LastTypes, Len(last.newValue.children),
              last.newValue.children, 1)

\* C22: a failed trial of tryRemoveArrays leaves the value as the caller
\* passed it: the next trial sees every child group as the list it was, so
\* the validator returns what the first type that accepts the groups as
\* passed makes of them, and fails when no type accepts them as passed
C22_FreshCopy ==
  LastTried
    => IF LastFresh.err = ""
       THEN /\ last.status = "ok"
            /\ last.value.children = normalizeNamespaces(LastNamespace, LastFresh.value, FALSE)
       ELSE last.status = "throw"

\* the first trial failed after it had replaced a list by its element, and
\* the second succeeded
C22_Witness ==
  /\ LastTried
  /\ last.status = "ok"
  /\ RemoveArraysTrial(LastNamespace, LastTypes[1], Len(last.newValue.children),
                       last.newValue.children).err # ""
  /\ \E j \in DOMAIN RemoveArraysTrial(LastNamespace, LastTypes[1],
                                       Len(last.newValue.children),
                                       last.newValue.children).value :
       RemoveArraysTrial(LastNamespace, LastTypes[1], Len(last.newValue.children),
                         last.newValue.children).value[j].single
  /\ \E name \in DOMAIN last.value.children : ~last.value.children[name].single


\* the error of the trial of tryRemoveArrays for the last type of the list
LastTrialError ==
  RemoveArraysTrial(LastNamespace, LastTypes[Len(LastTypes)], Len(last.newValue.children),
                    last.newValue.children).err

\* what C23 says of tryRemoveArrays: the first trial that succeeds gives the
\* result, and when each fails the error is that of the last
FirstTrialOrLastError ==
  LastTried
    => IF LastFresh.err = ""
       THEN last.status = "ok"
       ELSE last.status = "throw" /\ last.error = LastTrialError

\* what C23 says of tryParse: the first parser that does not fail gives the
\* result, and when each fails the error is that of the last, a TypeError of
\* Buffer
FirstParserOrLastError ==
  LastParsed
    => \E hexThrows \in BOOLEAN :
         IF InListOrder(LastParsers, last.newValue.text, hexThrows, 1).thrown
         THEN last.status = "throw" /\ last.error = "TypeError"
         ELSE last.status = "ok"

\* C23: tryParse and tryRemoveArrays return the result of the first candidate
\* of the list that succeeds, and when every candidate fails they raise the
\* error of the last candidate
C23_FirstOrLastError == FirstTrialOrLastError /\ FirstParserOrLastError


\* the element specs of the registries: the top-level ones and the children
\* of the types
ElementSpecs ==
  {elements[name] : name \in DOMAIN elements}
    \cup UNION {{types[t].children[name] : name \in DOMAIN types[t].children} :
                  t \in {u \in DOMAIN types : types[u].hasChildren}}

\* C24: in a registry built by addSchema calls resolveElement terminates for
\* every element spec, with the element at the end of the chain of refs or
\* with the error of a referenced element that is not found: the chain of
\* refs never comes back to an element it has passed
C24_ResolveElementEnds ==
  \A element \in ElementSpecs :
    /\ resolveElement(element).err \in {"", "ValidationError"}
    /\ resolveElement(element).err = "" => resolveElement(element).element.ref = NoName


\* C25: in a registry built by addSchema calls the chain of bases of every
\* type ends: resolveType and resolveToParse return their list for every
\* type name, or fail with the error of a type that is not found; no
\* committed type has a chain of bases that leads back to it
C25_BaseChainEnds ==
  \A typeName \in DOMAIN types :
    /\ resolveType(typeName).err \in {"", "ValidationError"}
    /\ resolveToParse(typeName).err \in {"", "ValidationError"}


\* C26 as stated: no type of the registry has both anyChildren and a
\* children map
C26_AsStated ==
  \A typeName \in DOMAIN types : ~(types[typeName].anyChildren /\ types[typeName].hasChildren)

\* C26: a type compiled from a sequence with an <any> has anyChildren and the
\* children map of the sequence as well, with the <element> declarations
\* beside the <any> (empty without any), and anyChildren goes first:
\* tryChildren gives the top-level elements for it
C26_AnyGoesFirst ==
  \A typeName \in DOMAIN types :
    types[typeName].anyChildren
      => /\ types[typeName].hasChildren
         /\ tryChildren(<<types[typeName]>>) = [children |-> elements, err |-> ""]

\* a1.xsd is compiled: Box has an <any> beside the element one, Bag an <any>
\* alone
C26_Witness ==
  /\ {Nm("a", "Box"), Nm("a", "Bag")} \subseteq DOMAIN types
  /\ types[Nm("a", "Box")].anyChildren
  /\ DOMAIN types[Nm("a", "Box")].children = {Nm("a", "one")}
  /\ types[Nm("a", "Bag")].anyChildren
  /\ types[Nm("a", "Bag")].hasChildren
  /\ DOMAIN types[Nm("a", "Bag")].children = {}


\* a step of the validator: every operation records itself in last
ValidatorStep == last'.op = "validator"

\* C27: a call of the validator, whether it returns or throws, leaves
\* types, elements, attributes and namespacePrefixes as they were: an
\* element of the registry that has no isArray has none afterwards, so what
\* resolveElement gives for a ref with another isArrayDefault stays the same
C27_RegistriesKept ==
  [][ValidatorStep
       => /\ UNCHANGED <<types, elements, attributes, namespacePrefixes>>
          /\ \A name \in DOMAIN elements :
               elements[name].isArray = Unset => elements'[name].isArray = Unset]_vars

FlagIn(typeName) ==
  resolveElement(types[Nm("a", typeName)].children[Nm("a", "flag")]).element.isArray

\* <memo><flag>..</flag></memo> has been validated, the validator having
\* resolved the ref of Memo to flag with isArrayDefault false; the entry of
\* flag has no isArray and the ref of Flags to it still resolves to an array
C27_Witness ==
  /\ last.op = "validator"
  /\ last.status = "ok"
  /\ last.newValue.name = U("memo")
  /\ Len(last.newValue.children) = 1
  /\ last.newValue.children[1].name = U("flag")
  /\ {Nm("a", "Memo"), Nm("a", "Flags")} \subseteq DOMAIN types
  /\ Nm("a", "flag") \in DOMAIN elements
  /\ elements[Nm("a", "flag")].isArray = Unset
  /\ FlagIn("Memo") = "false"
  /\ FlagIn("Flags") = "true"

\* a validator call that threw, the registries holding a1.xsd
C27_WitnessThrown ==
  /\ last.op = "validator"
  /\ last.status = "throw"
  /\ Nm("a", "flag") \in DOMAIN elements


BasesOf(typeNames) ==
  UNION {{types[t].base[i] : i \in DOMAIN types[t].base} : t \in typeNames \cap DOMAIN types}

\* the types of the registry on the base chain of the types in pending,
\* themselves included
RECURSIVE BaseChainFrom(_, _)
BaseChainFrom(pending, seen) ==
  IF pending = {} THEN seen
  ELSE BaseChainFrom((BasesOf(pending) \cap DOMAIN types) \ (seen \cup pending),
                     seen \cup pending)

\* C28: resolveToAttributes gives the attributes a type declares, gives the
\* empty map only when no type on its base chain declares an attribute, and
\* fails for a type that is not in the registry
C28_AttributesAlongBases ==
  /\ resolveToAttributes(Nm("a", "Missing")).err = "ValidationError"
  /\ \A typeName \in DOMAIN types :
       /\ resolveToAttributes(typeName).err = ""
       /\ DOMAIN types[typeName].attributes # {}
            => resolveToAttributes(typeName).attributes = types[typeName].attributes
       /\ resolveToAttributes(typeName).attributes = EmptyMap
            => \A base \in BaseChainFrom({typeName}, {}) : DOMAIN types[base].attributes = {}


\* C29: a schema is recorded as downloaded for a namespace only when the
\* body fetched for it was committed by addSchema, and a call of
\* downloadAndAddSchema for a namespace that is not parsed makes a request
C29_DownloadedCommitted ==
  /\ [](\A namespaceUrl \in DOMAIN driver.downloadedSchemas :
          /\ namespaceUrl \in DOMAIN parsedSchemas
          /\ driver.downloadedSchemas[namespaceUrl] \in parsedSchemas[namespaceUrl])
  /\ [][\A namespaceUrl \in driver.keys :
          (/\ driver.pc = "each"
           /\ namespaceUrl \notin driver'.keys
           /\ namespaceUrl \notin DOMAIN parsedSchemas)
            => driver'.fetches = driver.fetches + 1]_vars



\* C30: in one run of populateSchemas a namespace is fetched at most once
\* and handed to the compiler at most once, in whatever order the requests
\* of a round are answered, and a namespace that is parsed is not fetched
C30_OncePerRun ==
  /\ [](\A namespaceUrl \in Uris :
          driver.fetched[namespaceUrl] <= 1 /\ driver.compiled[namespaceUrl] <= 1)
  /\ [][\A namespaceUrl \in Uris :
          driver'.fetched[namespaceUrl] > driver.fetched[namespaceUrl]
            => namespaceUrl \notin DOMAIN parsedSchemas]_vars

\* the run for a document that hints urn:a at a.xsd and urn:b at b.xsd has
\* ended well: each of the two, hinted and imported by the other in the same
\* round, was fetched and compiled once
C30_Witness ==
  /\ driver.pc = "idle"
  /\ driver.result = "parsed"
  /\ driver.str = Hinted(Hint("urn:a", "a.xsd"), <<Hint("urn:b", "b.xsd")>>)
  /\ driver.fetched = [namespaceUrl \in Uris |-> 1]
  /\ driver.compiled = [namespaceUrl \in Uris |-> 1]
  /\ driver.requests = {}

=============================================================================
